---- MODULE Spec2Model ----
(***************************************************************************)
(* Macro-expansion core of rust-analyzer: virtual file identity, the token *)
(* map, the syntax <-> token-tree bridge and range ascension.              *)
(*                                                                         *)
(* Sources: crates/hir_expand/src/lib.rs, crates/mbe/src/syntax_bridge.rs. *)
(* Collaborators that are not part of those files (the token map, Shift,   *)
(* the expanders, the parser, the salsa queries) are modelled from the     *)
(* written specification.                                                  *)
(***************************************************************************)
EXTENDS Integers, Sequences, FiniteSets, TLC

(***************************************************************************)
(* Options are sequences of length <= 1.                                   *)
(***************************************************************************)
None == <<>>
Some(v) == <<v>>
IsSome(o) == Len(o) = 1
Unwrap(o) == o[1]

Min(a, b) == IF a <= b THEN a ELSE b
Max(a, b) == IF a >= b THEN a ELSE b

RECURSIVE ConcatAll(_)
ConcatAll(ss) == IF Len(ss) = 0 THEN <<>> ELSE Head(ss) \o ConcatAll(Tail(ss))

(***************************************************************************)
(* Bounds of the model.                                                    *)
(***************************************************************************)
\* how many macro calls the interner may hold
MaxCalls == 2

(***************************************************************************)
(* Syntax tokens.  A raw token is kind + text + length of the text; a      *)
(* token of a file also has its text range [s, e).                         *)
(***************************************************************************)
Tok(kind, text, len) == [kind |-> kind, text |-> text, len |-> len]

OpenKinds == {"L_PAREN", "L_BRACK", "L_CURLY"}
CloseKinds == {"R_PAREN", "R_BRACK", "R_CURLY"}
PunctKinds == OpenKinds \cup CloseKinds \cup
              {"SEMICOLON", "BANG", "POUND", "EQ", "DOLLAR", "PLUS", "MINUS", "COMMA",
               "UNDERSCORE", "THIN_ARROW", "DOTDOTEQ"}
KeywordKinds == {"FN_KW", "STRUCT_KW", "LET_KW", "IMPL_KW", "FOR_KW", "MACRO_KW",
                 "TRUE_KW", "FALSE_KW"}
LiteralKinds == {"STRING", "INT_NUMBER"}
TriviaKinds == {"WHITESPACE", "COMMENT"}

IsPunct(k) == k \in PunctKinds
IsKeyword(k) == k \in KeywordKinds
IsLiteral(k) == k \in LiteralKinds
IsTrivia(k) == k \in TriviaKinds

LP == Tok("L_PAREN", "(", 1)
RP == Tok("R_PAREN", ")", 1)
LB == Tok("L_BRACK", "[", 1)
RB == Tok("R_BRACK", "]", 1)
LC == Tok("L_CURLY", "{", 1)
RC == Tok("R_CURLY", "}", 1)
SEMI == Tok("SEMICOLON", ";", 1)
BANG == Tok("BANG", "!", 1)
COMMA == Tok("COMMA", ",", 1)
MINUS == Tok("MINUS", "-", 1)
UNDERSCORE == Tok("UNDERSCORE", "_", 1)
LIFETIME == Tok("LIFETIME_IDENT", "'a", 2)
POUND == Tok("POUND", "#", 1)
EQ == Tok("EQ", "=", 1)
DOLLAR == Tok("DOLLAR", "$", 1)
WS == Tok("WHITESPACE", " ", 1)
NL == Tok("WHITESPACE", "\n", 1)
MACRO == Tok("MACRO_KW", "macro", 5)
Id1(t) == Tok("IDENT", t, 1)
Id2(t) == Tok("IDENT", t, 2)
Id3(t) == Tok("IDENT", t, 3)
Id5(t) == Tok("IDENT", t, 5)
Id6(t) == Tok("IDENT", t, 6)

\* an outer doc comment `/// d` and the string literal made from it
DocComment == Tok("COMMENT", "/// d", 5)
PlainComment == Tok("COMMENT", "// c", 4)

RECURSIVE StartPos(_, _)
StartPos(raw, i) == IF i <= 1 THEN 0 ELSE StartPos(raw, i - 1) + raw[i - 1].len

\* the tokens of a text, each with its range
Layout(raw) ==
  [i \in 1..Len(raw) |->
     [kind |-> raw[i].kind, text |-> raw[i].text,
      s |-> StartPos(raw, i), e |-> StartPos(raw, i) + raw[i].len]]

Range(s, e) == [s |-> s, e |-> e]
TokRange(t) == Range(t.s, t.e)
ContainsRange(outer, inner) == outer.s <= inner.s /\ inner.e <= outer.e
Cover(a, b) == Range(Min(a.s, b.s), Max(a.e, b.e))
\* TextRange - TextSize, TextRange::checked_sub
CheckedSub(r, off) == IF r.s >= off THEN Some(Range(r.s - off, r.e - off)) ELSE None
AddOffset(r, off) == Range(r.s + off, r.e + off)

(***************************************************************************)
(* Virtual file ids.                                                       *)
(***************************************************************************)
RealFile(f) == [tag |-> "FileId", id |-> f]
MacroFile(c) == [tag |-> "MacroFile", id |-> c]
IsMacro(h) == h.tag = "MacroFile"

MainFileId == 1
IncludedFileId == 2
DefFileId == 3
RealFileIds == {MainFileId, IncludedFileId, DefFileId}

(***************************************************************************)
(* The macro definitions of the analysed crate graph.  A definition has a  *)
(* kind (MacroDefKind), the tokens of its `macro name(..) {..}` item when   *)
(* it is backed by an ast::Macro (every kind but ProcMacro), and the       *)
(* transcription its expander performs: a template whose elements copy an  *)
(* element of the macro argument ("Arg"), of the attribute input ("Attr"), *)
(* of the definition body ("Def", declarative macros only) or fabricate a  *)
(* token ("Fab").                                                          *)
(***************************************************************************)
NoTok == Tok("ERROR", "", 0)
TArg(i) == [t |-> "Arg", i |-> i, tok |-> NoTok]
TAttr(i) == [t |-> "Attr", i |-> i, tok |-> NoTok]
TDef(i) == [t |-> "Def", i |-> i, tok |-> NoTok]
TFab(tok) == [t |-> "Fab", i |-> 0, tok |-> tok]

MacroItem(name, params, body) ==
  <<MACRO, WS, name, LP>> \o params \o <<RP, LC>> \o body \o <<RC>>

MacroDefs == <<
  \* 1: macro dup($a){$a $a}
  [name |-> "dup", kind |-> "Declarative", resolved |-> TRUE, included |-> None,
   src |-> MacroItem(Id3("dup"), <<DOLLAR, Id1("a")>>,
                     <<DOLLAR, Id1("a"), WS, DOLLAR, Id1("a")>>),
   template |-> <<TArg(2), TArg(2)>>],
  \* 2: macro outer($a){inner!($a w);}
  [name |-> "outer", kind |-> "Declarative", resolved |-> TRUE, included |-> None,
   src |-> MacroItem(Id5("outer"), <<DOLLAR, Id1("a")>>,
                     <<Id5("inner"), BANG, LP, DOLLAR, Id1("a"), WS, Id1("w"), RP, SEMI>>),
   template |-> <<TDef(9), TDef(10), TDef(11), TArg(2), TDef(15), TDef(16), TDef(17)>>],
  \* 3: macro inner($y $z){let $y=$z;}
  [name |-> "inner", kind |-> "Declarative", resolved |-> TRUE, included |-> None,
   src |-> MacroItem(Id5("inner"), <<DOLLAR, Id1("y"), WS, DOLLAR, Id1("z")>>,
                     <<Tok("LET_KW", "let", 3), WS, DOLLAR, Id1("y"), EQ,
                       DOLLAR, Id1("z"), SEMI>>),
   template |-> <<TDef(12), TArg(2), TDef(16), TArg(3), TDef(19)>>],
  \* 4: macro doc($t){$t}, applied to a doc comment and an identifier
  [name |-> "doc", kind |-> "Declarative", resolved |-> TRUE, included |-> None,
   src |-> MacroItem(Id3("doc"), <<DOLLAR, Id1("t")>>, <<DOLLAR, Id1("t")>>),
   template |-> <<TArg(2), TArg(3), TArg(4), TArg(5), TArg(6), TArg(7), TArg(8)>>],
  \* 5: the built-in eager include!
  [name |-> "inc", kind |-> "BuiltInEager", resolved |-> TRUE,
   included |-> Some(IncludedFileId),
   src |-> MacroItem(Id3("inc"), <<>>, <<>>),
   template |-> <<>>],
  \* 6: a built-in eager macro that includes no file (concat!-like)
  [name |-> "cat", kind |-> "BuiltInEager", resolved |-> TRUE, included |-> None,
   src |-> MacroItem(Id3("cat"), <<>>, <<>>),
   template |-> <<TFab(Tok("STRING", "\"f\"", 3))>>],
  \* 7: the built-in derive C: impl C for <name> {}
  [name |-> "C", kind |-> "BuiltInDerive", resolved |-> TRUE, included |-> None,
   src |-> MacroItem(Id1("C"), <<>>, <<>>),
   template |-> <<TFab(Tok("IMPL_KW", "impl", 4)), TFab(Id1("C")),
                  TFab(Tok("FOR_KW", "for", 3)), TArg(2), TFab(LC), TFab(RC)>>],
  \* 8: a procedural attribute macro: the item with the attribute input spliced in
  [name |-> "r", kind |-> "ProcMacro", resolved |-> TRUE, included |-> None,
   src |-> <<>>,
   template |-> <<TArg(1), TArg(2), TAttr(2), TArg(3)>>],
  \* 9: a built-in attribute macro whose definition has a macro body; it
  \* pastes the whole attribute input after the item's name
  [name |-> "b", kind |-> "BuiltInAttr", resolved |-> TRUE, included |-> None,
   src |-> MacroItem(Id1("b"), <<>>, <<>>),
   template |-> <<TArg(1), TArg(2), TAttr(1), TAttr(2), TAttr(3), TArg(3)>>],
  \* 10: a procedural function-like macro whose expander is not available
  [name |-> "un", kind |-> "ProcMacro", resolved |-> FALSE, included |-> None,
   src |-> <<>>,
   template |-> <<>>]
>>

DefIds == 1..Len(MacroDefs)

(***************************************************************************)
(* The real files.                                                         *)
(***************************************************************************)
MainRaw ==
  <<PlainComment, NL,
    Id3("dup"), BANG, LP, Id1("x"), RP, NL,
    Id5("outer"), BANG, LP, Id1("x"), RP, NL,
    Id3("doc"), BANG, LP, DocComment, NL, Id1("x"), RP, NL,
    Id3("inc"), BANG, LP, Tok("STRING", "\"f\"", 3), RP, NL,
    Id3("cat"), BANG, LP, Tok("STRING", "\"f\"", 3), RP, NL,
    POUND, LB, Id6("derive"), LP, Id1("C"), RP, RB, WS,
      Tok("STRUCT_KW", "struct", 6), WS, Id1("S"), SEMI, NL,
    POUND, LB, Id1("r"), LP, Tok("STRING", "\"/x\"", 4), RP, RB, WS,
      Tok("FN_KW", "fn", 2), WS, Id1("h"), SEMI, NL,
    POUND, LB, Id1("b"), LP, Id1("k"), RP, RB, WS,
      Tok("FN_KW", "fn", 2), WS, Id1("g"), SEMI, NL,
    Id2("un"), BANG, LP, Id1("x"), RP, NL>>

\* foo.rs: fn f(){} and a macro call
IncludedRaw == <<Tok("FN_KW", "fn", 2), WS, Id1("f"), LP, RP, LC, RC, NL,
                 Id3("dup"), BANG, LP, Id1("x"), RP>>

\* the file of the macro definitions, one item per line
DefSrcLine(d) == IF Len(MacroDefs[d].src) = 0 THEN <<>> ELSE MacroDefs[d].src \o <<NL>>
DefRaw == ConcatAll([d \in DefIds |-> DefSrcLine(d)])

RECURSIVE DefOffset(_)
\* number of tokens of the definitions file before definition d
DefOffset(d) == IF d <= 1 THEN 0 ELSE DefOffset(d - 1) + Len(DefSrcLine(d - 1))

MainToks == Layout(MainRaw)
IncludedToks == Layout(IncludedRaw)
DefToks == Layout(DefRaw)

RealToks(f) ==
  CASE f = MainFileId -> MainToks
    [] f = IncludedFileId -> IncludedToks
    [] OTHER -> DefToks

(***************************************************************************)
(* Token trees, flattened: a subtree is its Open element, its children and *)
(* its Close element.  `kind` is the syntax kind the text lexes to.        *)
(***************************************************************************)
\* tt::TokenId::unspecified(): the largest id (u32::MAX in the code; TLC's largest
\* integer here, no id is ever allocated near it)
Unspecified == 2147483647

CloseOf(open) ==
  CASE open = "L_PAREN" -> "R_PAREN"
    [] open = "L_BRACK" -> "R_BRACK"
    [] OTHER -> "R_CURLY"
DelimText(kind) ==
  CASE kind = "L_PAREN" -> "("
    [] kind = "R_PAREN" -> ")"
    [] kind = "L_BRACK" -> "["
    [] kind = "R_BRACK" -> "]"
    [] kind = "L_CURLY" -> "{"
    [] OTHER -> "}"

TtLeaf(leaf, kind, text, len, id, spacing) ==
  [t |-> "Leaf", leaf |-> leaf, kind |-> kind, text |-> text, len |-> len,
   id |-> id, spacing |-> spacing]
TtOpen(kind, id) ==
  [t |-> "Open", leaf |-> "-", kind |-> kind, text |-> DelimText(kind), len |-> 1,
   id |-> id, spacing |-> "-"]
TtClose(open, id) ==
  [t |-> "Close", leaf |-> "-", kind |-> CloseOf(open), text |-> DelimText(CloseOf(open)),
   len |-> 1, id |-> id, spacing |-> "-"]

(***************************************************************************)
(* The token map: the entries in insertion order.  A leaf entry holds the  *)
(* range of a token; a delimiter entry holds the range from the start of   *)
(* the opening to the end of the closing delimiter.                        *)
(***************************************************************************)
LeafEntry(id, r) == [id |-> id, delim |-> FALSE, s |-> r.s, e |-> r.e]
DelimEntry(id, open, close) ==
  [id |-> id, delim |-> TRUE, s |-> Cover(open, close).s, e |-> Cover(open, close).e]

MinOf(S) == CHOOSE x \in S : \A y \in S : x <= y
MaxOf(S) == CHOOSE x \in S : \A y \in S : x >= y

EntryMatches(en, r) ==
  IF en.delim
  THEN Range(en.s, en.s + 1) = r \/ Range(en.e - 1, en.e) = r
  ELSE Range(en.s, en.e) = r

\* TokenMap::token_by_range
TokenByRange(map, r) ==
  LET hits == {i \in 1..Len(map) : EntryMatches(map[i], r)}
  IN IF hits = {} THEN None ELSE Some(map[MinOf(hits)].id)

\* the kind filter: a leaf entry holds no kind; a delimiter entry gives its open
\* side to an opening kind and its close side to a closing kind
ByKind(en, kind) ==
  IF ~en.delim THEN Some(Range(en.s, en.e))
  ELSE IF kind \in OpenKinds THEN Some(Range(en.s, en.s + 1))
  ELSE IF kind \in CloseKinds THEN Some(Range(en.e - 1, en.e))
  ELSE None

RECURSIVE RangesFrom(_, _, _, _)
RangesFrom(map, i, id, kind) ==
  IF i > Len(map) THEN <<>>
  ELSE (IF map[i].id = id THEN ByKind(map[i], kind) ELSE <<>>)
         \o RangesFrom(map, i + 1, id, kind)

\* TokenMap::ranges_by_token
RangesByToken(map, id, kind) == RangesFrom(map, 1, id, kind)

\* TokenMap::first_range_by_token
FirstRangeByToken(map, id, kind) ==
  LET rs == RangesByToken(map, id, kind)
  IN IF Len(rs) = 0 THEN None ELSE Some(rs[1])

RemoveAt(seq, i) == SubSeq(seq, 1, i - 1) \o SubSeq(seq, i + 1, Len(seq))

(***************************************************************************)
(* Shift (mbe): the offset that moves the ids of one token tree above the  *)
(* ids of another.                                                         *)
(***************************************************************************)
TtIds(tt) == {tt[i].id : i \in 1..Len(tt)} \ {Unspecified}
ShiftNew(tt) == IF TtIds(tt) = {} THEN 0 ELSE MaxOf(TtIds(tt)) + 1
ShiftId(sh, id) == IF id = Unspecified THEN id ELSE id + sh
Unshift(sh, id) == IF id >= sh THEN Some(id - sh) ELSE None

(***************************************************************************)
(* Syntax -> token tree: convert_tokens over the tokens a convertor bumps. *)
(***************************************************************************)
CommentDoc(text) ==
  CASE text = "/// d" -> "outer"
    [] text = "//! d" -> "inner"
    [] OTHER -> "none"

PunctLeaf(text, spacing, id, kind) == TtLeaf("Punct", kind, text, 1, id, spacing)

\* convert_doc_comment: #[doc = "text"] (or #![..]), every id unspecified; the
\* caller gives the literal the id allocated for the comment
ConvertDocComment(tok, id) ==
  <<PunctLeaf("#", "Alone", Unspecified, "POUND")>>
  \o (IF CommentDoc(tok.text) = "inner"
      THEN <<PunctLeaf("!", "Alone", Unspecified, "BANG")>> ELSE <<>>)
  \o <<TtOpen("L_BRACK", Unspecified),
       TtLeaf("Ident", "IDENT", "doc", 3, Unspecified, "-"),
       PunctLeaf("=", "Alone", Unspecified, "EQ"),
       TtLeaf("Literal", "STRING", "\" d\"", 4, id, "-"),
       TtClose("L_BRACK", Unspecified)>>

\* alloc that hands out the same id again
Alloc_SameId(st, abs, off) ==
  [st EXCEPT !.map = Append(@, LeafEntry(st.next_id, Range(abs.s - off, abs.e - off)))]

\* TokenIdAlloc::alloc
Alloc(st, abs, off) ==
  [st EXCEPT !.map = Append(@, LeafEntry(st.next_id, Range(abs.s - off, abs.e - off))),
             !.next_id = @ + 1]

\* spacing that is joint before every punctuation token but `_`
Spacing_JointBeforeOpen(peek) ==
  IF IsSome(peek) /\ IsTrivia(Unwrap(peek))
  THEN "Alone"
  ELSE IF IsSome(peek) /\ IsPunct(Unwrap(peek)) /\ Unwrap(peek) # "UNDERSCORE"
  THEN "Joint"
  ELSE "Alone"

\* the spacing of a punct leaf, from the token the convertor peeks
Spacing(peek) ==
  IF IsSome(peek) /\ (IsTrivia(Unwrap(peek)) \/ Unwrap(peek) \in OpenKinds)
  THEN "Alone"
  ELSE IF IsSome(peek) /\ IsPunct(Unwrap(peek)) /\ Unwrap(peek) # "UNDERSCORE"
  THEN "Joint"
  ELSE "Alone"

\* the text of a lifetime with this name
LifetimeText(name) == IF name = "a" THEN "'a" ELSE "'static"

\* the text of a lifetime after its apostrophe
LifetimeName(text) == IF text = "'a" THEN "a" ELSE "static"

\* a lifetime converted with the range of the whole token for both leaves
ConvLifetime_WholeRange(st, tok, off) ==
  [Alloc(Alloc(st, TokRange(tok), off), TokRange(tok), off) EXCEPT
     !.out = @ \o <<PunctLeaf("'", "Joint", st.next_id, "QUOTE"),
                    TtLeaf("Ident", "IDENT", LifetimeName(tok.text), tok.e - tok.s - 1,
                           st.next_id + 1, "-")>>]

\* convert_tokens on a LIFETIME_IDENT: the apostrophe and the name, each with
\* an id of its own for its part of the range
ConvLifetime(st, tok, off) ==
  [Alloc(Alloc(st, Range(tok.s, tok.s + 1), off), Range(tok.s + 1, tok.e), off) EXCEPT
     !.out = @ \o <<PunctLeaf("'", "Joint", st.next_id, "QUOTE"),
                    TtLeaf("Ident", "IDENT", LifetimeName(tok.text), tok.e - tok.s - 1,
                           st.next_id + 1, "-")>>]

\* the root entry of the stack: no delimiter, an index that is never used
RootEntry == [pos |-> 0, delimiter |-> None, idx |-> -1, open |-> Range(1, 1)]

\* convert_tokens before its loop: the stack holds the root entry
ConvInit ==
  [out |-> <<>>, stack |-> <<RootEntry>>, map |-> <<>>, next_id |-> 0, panic |-> FALSE]

\* a closing delimiter that pops whatever entry is on top of the stack
ExpectedCloser_AnyEntry(top, k) == k \in CloseKinds

\* the closing delimiter that the entry on top of the stack expects
ExpectedCloser(top, k) == IsSome(top.delimiter) /\ k = CloseOf(Unwrap(top.delimiter))

\* one turn of the loop of convert_tokens; panic records an unwrap of None
ConvStep(st, tok, peek, off) ==
  LET k == tok.kind
      r == TokRange(tok)
      top == st.stack[Len(st.stack)]
  IN
  IF st.panic \/ Len(st.stack) = 0 THEN [st EXCEPT !.panic = TRUE]
  ELSE IF k = "COMMENT" THEN
    IF CommentDoc(tok.text) # "none"
    THEN [Alloc(st, r, off) EXCEPT !.out = @ \o ConvertDocComment(tok, st.next_id)]
    ELSE st
  ELSE IF IsPunct(k) /\ k # "UNDERSCORE" THEN
    IF ExpectedCloser(top, k) THEN
      \* the expected closing delimiter: pop, record the close range, push the
      \* subtree into the entry below
      IF Len(st.stack) = 1 THEN [st EXCEPT !.stack = <<>>, !.panic = TRUE]
      ELSE [st EXCEPT !.stack = SubSeq(@, 1, Len(@) - 1),
                      !.map[top.idx] = DelimEntry(@.id, Range(@.s, @.e),
                                                  Range(r.s - off, r.e - off)),
                      !.out = Append(@, TtClose(Unwrap(top.delimiter),
                                                st.map[top.idx].id))]
    ELSE IF k \in OpenKinds THEN
      \* TokenIdAlloc::open_delim and push
      [st EXCEPT !.stack = Append(@, [pos |-> Len(st.out) + 1, delimiter |-> Some(k),
                                      idx |-> Len(st.map) + 1, open |-> r]),
                 !.map = Append(@, DelimEntry(st.next_id, Range(r.s - off, r.e - off),
                                              Range(r.s - off, r.e - off))),
                 !.next_id = @ + 1,
                 !.out = Append(@, TtOpen(k, st.next_id))]
    ELSE
      [Alloc(st, r, off) EXCEPT
         !.out = Append(@, PunctLeaf(tok.text, Spacing(peek), st.next_id, k))]
  ELSE IF k \in {"TRUE_KW", "FALSE_KW", "IDENT", "UNDERSCORE"} \/ IsKeyword(k) THEN
    [Alloc(st, r, off) EXCEPT
       !.out = Append(@, TtLeaf("Ident", k, tok.text, r.e - r.s, st.next_id, "-"))]
  ELSE IF IsLiteral(k) THEN
    [Alloc(st, r, off) EXCEPT
       !.out = Append(@, TtLeaf("Literal", k, tok.text, r.e - r.s, st.next_id, "-"))]
  ELSE IF k = "LIFETIME_IDENT" THEN ConvLifetime(st, tok, off)
  ELSE st

RECURSIVE ConvLoop(_, _, _, _)
ConvLoop(toks, i, st, off) ==
  IF i > Len(toks) THEN st
  ELSE ConvLoop(toks, i + 1,
                ConvStep(st, toks[i],
                         IF i < Len(toks) THEN Some(toks[i + 1].kind) ELSE None, off),
                off)

\* end of input that drops the stack and leaves the open subtrees in the tree
ConvMerge_KeepSubtree(st, off) == [st EXCEPT !.stack = SubSeq(@, 1, 1)]

RECURSIVE ConvMerge(_, _)
\* end of input: every subtree still open is flattened into its parent, its
\* opening delimiter re-emitted as a punct leaf with a fresh id
ConvMerge(st, off) ==
  IF st.panic \/ Len(st.stack) <= 1 THEN st
  ELSE LET top == st.stack[Len(st.stack)]
           removed == [st EXCEPT !.map = RemoveAt(@, top.idx),
                                 !.stack = SubSeq(@, 1, Len(@) - 1)]
           alloc == Alloc(removed, top.open, off)
       IN ConvMerge([alloc EXCEPT !.out[top.pos] =
                       PunctLeaf(DelimText(Unwrap(top.delimiter)), "Alone",
                                 removed.next_id, Unwrap(top.delimiter))],
                    off)

\* the last pop of convert_tokens, of the one entry the merge leaves
ConvFinish(st) ==
  IF st.panic \/ Len(st.stack) = 0 THEN [st EXCEPT !.panic = TRUE]
  ELSE [st EXCEPT !.stack = SubSeq(@, 1, Len(@) - 1)]

\* convert_tokens: the token tree and the token map, ranges relative to off
ConvertTokens(toks, off) ==
  LET st == ConvFinish(ConvMerge(ConvLoop(toks, 1, ConvInit, off), off))
  IN [tt |-> st.out, map |-> st.map]

\* the conversion that takes no notice of the censored nodes
SyntaxNodeToTokenTreeCensored_KeepCensored(toks, first, last, censor) ==
  ConvertTokens(SubSeq(toks, first, last), toks[first].s)

\* the conversion with ranges taken from the start of the file
SyntaxNodeToTokenTreeCensored_NoOffset(toks, first, last, censor) ==
  LET Kept(t) == \A c \in censor :
                   ~ContainsRange(Range(toks[c.first].s, toks[c.last].e), TokRange(t))
  IN ConvertTokens(SelectSeq(SubSeq(toks, first, last), Kept), 0)

\* syntax_node_to_token_tree_censored on the node [first, last] of a file: the
\* tokens inside a censored node are skipped, ranges are relative to the node
SyntaxNodeToTokenTreeCensored(toks, first, last, censor) ==
  LET Kept(t) == \A c \in censor :
                   ~ContainsRange(Range(toks[c.first].s, toks[c.last].e), TokRange(t))
  IN ConvertTokens(SelectSeq(SubSeq(toks, first, last), Kept), toks[first].s)

SyntaxNodeToTokenTree(toks, first, last) ==
  SyntaxNodeToTokenTreeCensored(toks, first, last, {})

\* parse_to_token_tree: the raw tokens of a text, ranges from offset 0
ParseToTokenTree(toks) == ConvertTokens(toks, 0)

(***************************************************************************)
(* Token tree -> syntax: the tree sink reassembles the text and records    *)
(* the range of every leaf and delimiter pair under its id.                *)
(***************************************************************************)
SynTok(kind, text, s, e) == [kind |-> kind, text |-> text, s |-> s, e |-> e]

\* a sink that also puts whitespace after `;`
SinkToken_SpaceAfterSemi(st, tt, k) ==
  LET el == tt[k]
      \* a LIFETIME_IDENT takes two leaves: the apostrophe is kept in the
      \* buffer and the token is written with the name
      emitted ==
        IF el.text = "'" /\ k < Len(tt) /\ tt[k + 1].leaf = "Ident"
        THEN [st EXCEPT !.pos = @ + 1]
        ELSE IF el.leaf = "Ident" /\ k > 1 /\ tt[k - 1].text = "'"
        THEN [st EXCEPT !.toks = Append(@, SynTok("LIFETIME_IDENT", LifetimeText(el.text),
                                                  st.pos - 1, st.pos + el.len)),
                        !.pos = @ + el.len]
        ELSE [st EXCEPT !.toks = Append(@, SynTok(el.kind, el.text, st.pos,
                                                  st.pos + el.len)),
                        !.pos = @ + el.len]
      marked ==
        CASE el.t = "Leaf" ->
               [emitted EXCEPT !.map = Append(@, LeafEntry(el.id,
                                                   Range(st.pos, st.pos + el.len)))]
          [] el.t = "Open" ->
               [emitted EXCEPT !.open_delims =
                  [x \in DOMAIN @ \cup {el.id} |-> IF x = el.id THEN st.pos ELSE @[x]]]
          [] OTHER ->
               IF el.id \in DOMAIN st.open_delims
               THEN [emitted EXCEPT !.map = Append(@,
                       DelimEntry(el.id,
                                  Range(st.open_delims[el.id], st.open_delims[el.id] + 1),
                                  Range(st.pos, st.pos + 1)))]
               ELSE emitted
      \* whitespace between adjoint puncts
      spaced ==
        el.t = "Leaf" /\ el.leaf = "Punct" /\ k < Len(tt)
        /\ tt[k + 1].t = "Leaf" /\ tt[k + 1].leaf = "Punct"
        /\ el.spacing = "Alone"
  IN IF spaced
     THEN [marked EXCEPT !.toks = Append(@, SynTok("WHITESPACE", " ", marked.pos,
                                                  marked.pos + 1)),
                         !.pos = @ + 1]
     ELSE marked

\* TtTreeSink::token for the element tt[k]
SinkToken(st, tt, k) ==
  LET el == tt[k]
      \* a LIFETIME_IDENT takes two leaves: the apostrophe is kept in the
      \* buffer and the token is written with the name
      emitted ==
        IF el.text = "'" /\ k < Len(tt) /\ tt[k + 1].leaf = "Ident"
        THEN [st EXCEPT !.pos = @ + 1]
        ELSE IF el.leaf = "Ident" /\ k > 1 /\ tt[k - 1].text = "'"
        THEN [st EXCEPT !.toks = Append(@, SynTok("LIFETIME_IDENT", LifetimeText(el.text),
                                                  st.pos - 1, st.pos + el.len)),
                        !.pos = @ + el.len]
        ELSE [st EXCEPT !.toks = Append(@, SynTok(el.kind, el.text, st.pos,
                                                  st.pos + el.len)),
                        !.pos = @ + el.len]
      marked ==
        CASE el.t = "Leaf" ->
               [emitted EXCEPT !.map = Append(@, LeafEntry(el.id,
                                                   Range(st.pos, st.pos + el.len)))]
          [] el.t = "Open" ->
               [emitted EXCEPT !.open_delims =
                  [x \in DOMAIN @ \cup {el.id} |-> IF x = el.id THEN st.pos ELSE @[x]]]
          [] OTHER ->
               IF el.id \in DOMAIN st.open_delims
               THEN [emitted EXCEPT !.map = Append(@,
                       DelimEntry(el.id,
                                  Range(st.open_delims[el.id], st.open_delims[el.id] + 1),
                                  Range(st.pos, st.pos + 1)))]
               ELSE emitted
      \* whitespace between adjoint puncts
      spaced ==
        el.t = "Leaf" /\ el.leaf = "Punct" /\ k < Len(tt)
        /\ tt[k + 1].t = "Leaf" /\ tt[k + 1].leaf = "Punct"
        /\ el.spacing = "Alone" /\ el.text # ";"
  IN IF spaced
     THEN [marked EXCEPT !.toks = Append(@, SynTok("WHITESPACE", " ", marked.pos,
                                                  marked.pos + 1)),
                         !.pos = @ + 1]
     ELSE marked

RECURSIVE SinkLoop(_, _, _)
SinkLoop(tt, k, st) ==
  IF k > Len(tt) THEN st ELSE SinkLoop(tt, k + 1, SinkToken(st, tt, k))

\* TtTreeSink::new
SinkNew == [toks |-> <<>>, map |-> <<>>, pos |-> 0, open_delims |-> [x \in {} |-> 0]]

\* token_tree_to_syntax_node: the tokens of the expansion and its token map
TokenTreeToSyntaxNode(tt) ==
  LET st == SinkLoop(tt, 1, SinkNew)
  IN [toks |-> st.toks, map |-> st.map]

(***************************************************************************)
(* State: the inputs of the database (the parse of every real file and the *)
(* macro definitions, each with the token tree of its body and its         *)
(* def-site token map), the interner (MacroCallId -> MacroCallLoc, ids     *)
(* from 1), the memoised queries of the database for every interned call,  *)
(* and the last query made of the core with its result.                    *)
(***************************************************************************)
VARIABLES files, defs, interner, db, q, r

vars == <<files, defs, interner, db, q, r>>

\* name resolution of a macro path: the definition with that name, 0 if none
DefByName(text) ==
  IF \E d \in DOMAIN defs : defs[d].name = text
  THEN CHOOSE d \in DOMAIN defs : defs[d].name = text
  ELSE 0

\* MacroDefId::ast_id(): Left (an ast::Macro) for every kind but ProcMacro
HasMacroAst(d) == defs[d].kind # "ProcMacro"

(***************************************************************************)
(* The parser and name resolution (collaborators): the macro calls of a    *)
(* token sequence.  `name!( .. )` is a function-like call, `#[name(..)]`   *)
(* followed by an item that ends at `;` is an attributed item; the FileAstId*)
(* of a call is the index of its first token.                              *)
(***************************************************************************)
RECURSIVE ScanClose(_, _, _)
ScanClose(toks, j, depth) ==
  IF j > Len(toks) THEN 0
  ELSE IF toks[j].kind \in OpenKinds THEN ScanClose(toks, j + 1, depth + 1)
  ELSE IF toks[j].kind \in CloseKinds
       THEN (IF depth = 1 THEN j ELSE ScanClose(toks, j + 1, depth - 1))
  ELSE ScanClose(toks, j + 1, depth)

\* the index of the delimiter that closes the one at i, 0 if there is none
MatchClose(toks, i) == ScanClose(toks, i + 1, 1)

NoNode == [first |-> 0, last |-> 0]
Node(first, last) == [first |-> first, last |-> last]

FnLikeAt(toks, i) ==
  /\ i + 2 <= Len(toks)
  /\ toks[i].kind = "IDENT" /\ toks[i + 1].kind = "BANG" /\ toks[i + 2].kind = "L_PAREN"
  /\ MatchClose(toks, i + 2) # 0
  /\ DefByName(toks[i].text) # 0
  /\ defs[DefByName(toks[i].text)].kind \in {"Declarative", "BuiltIn", "BuiltInEager", "ProcMacro"}

\* the `]` of the attribute that starts at i, 0 if there is no attribute
AttrEnd(toks, i) ==
  IF i + 3 > Len(toks) THEN 0
  ELSE IF ~(toks[i].kind = "POUND" /\ toks[i + 1].kind = "L_BRACK"
            /\ toks[i + 2].kind = "IDENT") THEN 0
  ELSE IF toks[i + 3].kind = "R_BRACK" THEN i + 3
  ELSE IF toks[i + 3].kind = "L_PAREN"
       THEN (LET m == MatchClose(toks, i + 3)
             IN IF m # 0 /\ m < Len(toks) /\ toks[m + 1].kind = "R_BRACK"
                THEN m + 1 ELSE 0)
  ELSE 0

ItemEnd(toks, rb) ==
  LET semis == {j \in (rb + 1)..Len(toks) : toks[j].kind = "SEMICOLON"}
  IN IF semis = {} THEN 0 ELSE MinOf(semis)

AttrDefName(toks, i) ==
  IF toks[i + 2].text = "derive" /\ toks[i + 3].kind = "L_PAREN"
  THEN toks[i + 4].text ELSE toks[i + 2].text

AttrItemAt(toks, i) ==
  /\ AttrEnd(toks, i) # 0
  /\ ItemEnd(toks, AttrEnd(toks, i)) # 0
  /\ DefByName(AttrDefName(toks, i)) # 0
  /\ defs[DefByName(AttrDefName(toks, i))].kind \in {"BuiltInDerive", "BuiltInAttr", "ProcMacro"}

\* what the parser finds for the call whose first token is i:
\*   node      the MACRO_CALL node, or the attributed item
\*   arg       MacroCallKind::arg: the call's token tree, or the whole item
\*   attr      the invoking attribute (attrs().nth(invoc_attr_index))
\*   attr_tt   the attribute's token tree, if it has one
CallSite(toks, i) ==
  IF FnLikeAt(toks, i)
  THEN [style |-> "FnLike", at |-> i, def |-> DefByName(toks[i].text),
        node |-> Node(i, MatchClose(toks, i + 2)),
        arg |-> Node(i + 2, MatchClose(toks, i + 2)),
        attr |-> NoNode, attr_tt |-> None]
  ELSE [style |-> IF toks[i + 2].text = "derive" THEN "Derive" ELSE "Attr",
        at |-> i, def |-> DefByName(AttrDefName(toks, i)),
        node |-> Node(i, ItemEnd(toks, AttrEnd(toks, i))),
        arg |-> Node(i, ItemEnd(toks, AttrEnd(toks, i))),
        attr |-> Node(i, AttrEnd(toks, i)),
        attr_tt |-> IF toks[i + 3].kind = "L_PAREN"
                    THEN Some(Node(i + 3, AttrEnd(toks, i) - 1)) ELSE None]

CallSites(toks) ==
  {CallSite(toks, i) : i \in {j \in 1..Len(toks) : FnLikeAt(toks, j) \/ AttrItemAt(toks, j)}}

(***************************************************************************)
(* Macro definitions as the database sees them.                            *)
(***************************************************************************)
BodyFirst(d) == MinOf({i \in 1..Len(MacroDefs[d].src) : MacroDefs[d].src[i].kind = "L_CURLY"})
\* ast::MacroDef::body of definition d, a node of the definitions file
DefBody(d) == Node(DefOffset(d) + BodyFirst(d), DefOffset(d) + Len(MacroDefs[d].src))
\* the token tree of the definition and its def-site token map
DefConv(d) == SyntaxNodeToTokenTree(DefToks, DefBody(d).first, DefBody(d).last)
EmptyTt == [tt |-> <<>>, map |-> <<>>]
\* db.macro_def: the definition, where its item starts in the definitions file,
\* its body and the conversion of the body (none for a procedural macro)
MacroDef(d) ==
  [name |-> MacroDefs[d].name, kind |-> MacroDefs[d].kind,
   resolved |-> MacroDefs[d].resolved, included |-> MacroDefs[d].included,
   template |-> MacroDefs[d].template, first |-> DefOffset(d),
   body |-> IF MacroDefs[d].kind # "ProcMacro" THEN DefBody(d) ELSE NoNode,
   conv |-> IF MacroDefs[d].kind # "ProcMacro" THEN DefConv(d) ELSE EmptyTt]
\* the shift of a declarative macro: call-site ids lie above its definition's ids
DefShift(d) == ShiftNew(defs[d].conv.tt)

\* TokenExpander::map_id_down
MapIdDown(d, id) ==
  IF defs[d].kind = "Declarative" THEN ShiftId(DefShift(d), id) ELSE id

\* TokenExpander::map_id_up
MapIdUp(d, id) ==
  IF defs[d].kind = "Declarative"
  THEN (IF IsSome(Unshift(DefShift(d), id))
        THEN [id |-> Unwrap(Unshift(DefShift(d), id)), origin |-> "Call"]
        ELSE [id |-> id, origin |-> "Def"])
  ELSE [id |-> id, origin |-> "Call"]

CallIds == 1..Len(interner)
FileIds == {RealFile(f) : f \in RealFileIds} \cup {MacroFile(c) : c \in CallIds}

\* db.lookup_intern_macro
LookupInternMacro(c) == interner[c]

\* MacroCallKind::file_id: the file containing the macro invocation
KindFileId(kind) == kind.file_id

\* db.parse_or_expand
HasParse(h) == IF IsMacro(h) THEN IsSome(db[h.id].exp) ELSE TRUE
FileToks(h) == IF IsMacro(h) THEN Unwrap(db[h.id].exp).toks ELSE files[h.id]

\* the element a declarative macro transcribes from token k of its definition
DefElt(d, k) ==
  LET tok == files[DefFileId][defs[d].first + k]
      rel == Range(tok.s - files[DefFileId][defs[d].body.first].s, tok.e - files[DefFileId][defs[d].body.first].s)
      id == Unwrap(TokenByRange(defs[d].conv.map, rel))
  IN IF tok.kind \in OpenKinds THEN TtOpen(tok.kind, id)
     ELSE IF tok.kind \in CloseKinds
     THEN TtClose(CHOOSE o \in OpenKinds : CloseOf(o) = tok.kind, id)
     ELSE CHOOSE el \in {defs[d].conv.tt[i] : i \in 1..Len(defs[d].conv.tt)} :
            el.t = "Leaf" /\ el.id = id

\* a token an expander makes up: it has no identity
FabElt(tok) ==
  IF tok.kind \in OpenKinds THEN TtOpen(tok.kind, Unspecified)
  ELSE IF tok.kind \in CloseKinds
  THEN TtClose(CHOOSE o \in OpenKinds : CloseOf(o) = tok.kind, Unspecified)
  ELSE IF IsPunct(tok.kind) THEN PunctLeaf(tok.text, "Alone", Unspecified, tok.kind)
  ELSE TtLeaf(IF IsLiteral(tok.kind) THEN "Literal" ELSE "Ident",
              tok.kind, tok.text, tok.len, Unspecified, "-")

\* the expander of loc.def applied to the macro argument (and, for an attribute
\* macro, to the attribute input shifted above the argument's ids)
Expand(loc, arg) ==
  LET d == loc.def
      Elt(te) ==
        CASE te.t = "Arg" -> [arg.tt[te.i] EXCEPT !.id = MapIdDown(d, @)]
          [] te.t = "Attr" ->
               [loc.kind.attr_args.tt[te.i] EXCEPT !.id = ShiftId(ShiftNew(arg.tt), @)]
          [] te.t = "Def" -> DefElt(d, te.i)
          [] OTHER -> FabElt(te.tok)
  IN IF IsSome(loc.eager) /\ IsSome(Unwrap(loc.eager).included_file)
     THEN ParseToTokenTree(files[Unwrap(Unwrap(loc.eager).included_file)]).tt
     ELSE [i \in 1..Len(defs[d].template) |-> Elt(defs[d].template[i])]

\* db.macro_arg: the token tree of the call's argument; for a derive or an
\* attribute the item with the invoking attribute censored
MacroArg(loc, ptoks) ==
  LET site == CallSite(ptoks, loc.kind.ast_id)
  IN IF loc.kind.tag = "FnLike"
     THEN SyntaxNodeToTokenTree(ptoks, site.arg.first, site.arg.last)
     ELSE SyntaxNodeToTokenTreeCensored(ptoks, site.arg.first, site.arg.last, {site.attr})

\* what the database memoises for a call: macro_arg and the value of
\* parse_macro_expansion (none when the macro definition does not resolve)
Memo(loc, ptoks) ==
  LET arg == MacroArg(loc, ptoks)
  IN [arg |-> Some(arg),
      exp |-> IF defs[loc.def].resolved
              THEN Some(TokenTreeToSyntaxNode(Expand(loc, arg))) ELSE None]

\* the MacroCallKind of the call at `site` of file h
CallKind(h, site) ==
  [tag |-> site.style, file_id |-> h, ast_id |-> site.at,
   attr_args |-> IF site.style = "Attr" /\ IsSome(site.attr_tt)
                 THEN SyntaxNodeToTokenTree(FileToks(h), Unwrap(site.attr_tt).first,
                                            Unwrap(site.attr_tt).last)
                 ELSE EmptyTt,
   invoc_attr_index |-> 0]

Idle == [op |-> "idle"]
NoResult == [tag |-> "none"]

Init ==
  /\ files = [f \in RealFileIds |-> RealToks(f)]
  /\ defs = [d \in DefIds |-> MacroDef(d)]
  /\ interner = <<>>
  /\ db = <<>>
  /\ q = Idle
  /\ r = NoResult

\* an interner that hands out a new id for every call, known or not
Intern_AlwaysNew(loc, ptoks) ==
  /\ q = Idle
  /\ Len(interner) < MaxCalls
  /\ interner' = Append(interner, loc)
  /\ db' = Append(db, Memo(loc, ptoks))
  /\ UNCHANGED <<files, defs, q, r>>

\* db.intern_macro: a known location keeps its id, a new one gets the next id
Intern(loc, ptoks) ==
  /\ q = Idle
  /\ Len(interner) < MaxCalls
  /\ \A c \in CallIds : interner[c] # loc
  /\ interner' = Append(interner, loc)
  /\ db' = Append(db, Memo(loc, ptoks))
  /\ UNCHANGED <<files, defs, q, r>>

\* MacroDefId::as_lazy_macro
\* (the definitions file holds macro definitions only: their bodies are
\* token trees, not calls)
AsLazyMacro ==
  \E h \in FileIds \ {RealFile(DefFileId)} :
    /\ HasParse(h)
    /\ \E site \in CallSites(FileToks(h)) :
         /\ defs[site.def].kind # "BuiltInEager"
         /\ Intern([def |-> site.def, eager |-> None, kind |-> CallKind(h, site)],
                   FileToks(h))

\* the eager expansion driver interns the call with its EagerCallInfo
InternEager ==
  \E h \in FileIds \ {RealFile(DefFileId)} :
    /\ HasParse(h)
    /\ \E site \in CallSites(FileToks(h)) :
         /\ defs[site.def].kind = "BuiltInEager"
         /\ Intern([def |-> site.def,
                    eager |-> Some([included_file |-> defs[site.def].included]),
                    kind |-> CallKind(h, site)],
                   FileToks(h))

(***************************************************************************)
(* HirFileId: original_file, expansion_level, call_node.                   *)
(***************************************************************************)
\* original_file without the redirection through included_file
OriginalFile_NoInclude(h) ==
  IF ~IsMacro(h) THEN h.id
  ELSE LET up == KindFileId(LookupInternMacro(h.id).kind)
       IN IF IsMacro(up) THEN KindFileId(LookupInternMacro(up.id).kind).id ELSE up.id

RECURSIVE OriginalFile(_)
\* HirFileId::original_file
OriginalFile(h) ==
  IF ~IsMacro(h) THEN h.id
  ELSE LET loc == LookupInternMacro(h.id)
           file_id ==
             IF IsSome(loc.eager) /\ IsSome(Unwrap(loc.eager).included_file)
             THEN RealFile(Unwrap(Unwrap(loc.eager).included_file))
             ELSE KindFileId(loc.kind)
       IN OriginalFile(file_id)

\* expansion_level with an `if let` in place of the `while let`
ExpansionLevelFrom_Once(curr, level) == IF IsMacro(curr) THEN level + 1 ELSE level

RECURSIVE ExpansionLevelFrom(_, _)
\* the loop of expansion_level
ExpansionLevelFrom(curr, level) ==
  IF IsMacro(curr)
  THEN ExpansionLevelFrom(KindFileId(LookupInternMacro(curr.id).kind), level + 1)
  ELSE level

\* HirFileId::expansion_level
ExpansionLevel(h) == ExpansionLevelFrom(h, 0)

InFile(h, node) == [file |-> h, first |-> node.first, last |-> node.last]

\* MacroCallKind::to_node
KindToNode(kind) ==
  InFile(kind.file_id, CallSite(FileToks(kind.file_id), kind.ast_id).node)

\* HirFileId::call_node
CallNode(h) ==
  IF ~IsMacro(h) THEN None ELSE Some(KindToNode(LookupInternMacro(h.id).kind))

(***************************************************************************)
(* Syntax trees.  A token of a file is InFile(file, index); a node is the  *)
(* interval of tokens it covers.  The nodes of a file are its root, every  *)
(* macro call or attributed item with its attribute and token trees, every *)
(* balanced delimiter group, and the name or literal node around a single  *)
(* identifier or literal.                                                  *)
(***************************************************************************)
InTok(h, i) == [file |-> h, idx |-> i]
TokOf(t) == FileToks(t.file)[t.idx]

NodeRange(toks, n) == Range(toks[n.first].s, toks[n.last].e)

Nodes(toks) ==
  {Node(1, Len(toks))}
  \cup {Node(i, MatchClose(toks, i)) :
          i \in {j \in 1..Len(toks) : toks[j].kind \in OpenKinds /\ MatchClose(toks, j) # 0}}
  \cup {Node(i, i) : i \in {j \in 1..Len(toks) : toks[j].kind \in {"IDENT"} \cup LiteralKinds}}
  \cup {c.node : c \in CallSites(toks)}
  \cup {c.attr : c \in {x \in CallSites(toks) : x.style # "FnLike"}}

\* SyntaxNode::descendants: the node and the nodes inside it, in preorder
RECURSIVE Preorder(_)
Preorder(S) ==
  IF S = {} THEN <<>>
  ELSE LET n == CHOOSE x \in S : \A y \in S :
                  x.first < y.first \/ (x.first = y.first /\ x.last >= y.last)
       IN <<n>> \o Preorder(S \ {n})

Descendants(toks, n) ==
  Preorder({m \in Nodes(toks) : n.first <= m.first /\ m.last <= n.last})

RNone == [tag |-> "None"]
RPanic == [tag |-> "Panic"]
RSome(v) == [tag |-> "Some", v |-> v]

\* SyntaxNode::covering_element(range).into_token(): the token that covers the
\* range; none when only a node covers it; a panic when the range is not
\* inside the node
CoveringToken(h, n, range) ==
  LET toks == FileToks(h)
      hits == {i \in n.first..n.last : ContainsRange(TokRange(toks[i]), range)}
  IN IF ~ContainsRange(NodeRange(toks, n), range) THEN RPanic
     ELSE IF hits = {} THEN RNone
     ELSE RSome(InTok(h, MinOf(hits)))

RECURSIVE SkipTrivia(_, _, _)
\* skip_trivia_token: the next token in the direction that is not trivia
SkipTrivia(toks, i, dir) ==
  IF i < 1 \/ i > Len(toks) THEN None
  ELSE IF IsTrivia(toks[i].kind) THEN SkipTrivia(toks, i + dir, dir)
  ELSE Some(i)

(***************************************************************************)
(* ExpansionInfo and the two token mappings.                               *)
(***************************************************************************)
\* HirFileId::expansion_info
ExpansionInfo(h) ==
  IF ~IsMacro(h) THEN None
  ELSE
    LET loc == LookupInternMacro(h.id)
        site == CallSite(FileToks(KindFileId(loc.kind)), loc.kind.ast_id)
        def == IF HasMacroAst(loc.def)
               THEN Some(InFile(RealFile(DefFileId), defs[loc.def].body)) ELSE None
        attr_input_or_mac_def ==
          IF IsSome(def) THEN def
          ELSE IF loc.kind.tag = "Attr" /\ IsSome(site.attr_tt)
               THEN Some(InFile(KindFileId(loc.kind), Unwrap(site.attr_tt)))
               ELSE None
    IN IF ~defs[loc.def].resolved THEN None
       ELSE IF ~IsSome(db[h.id].exp) THEN None
       ELSE IF ~IsSome(db[h.id].arg) THEN None
       ELSE Some([expanded |-> InFile(h, Node(1, Len(Unwrap(db[h.id].exp).toks))),
                  arg |-> InFile(KindFileId(loc.kind), site.arg),
                  attr_input_or_mac_def |-> attr_input_or_mac_def,
                  macro_def |-> loc.def,
                  macro_arg |-> Unwrap(db[h.id].arg),
                  macro_arg_shift |-> ShiftNew(Unwrap(db[h.id].arg).tt),
                  exp_map |-> Unwrap(db[h.id].exp).map])

NodeStart(n) == FileToks(n.file)[n.first].s
NodeOf(n) == Node(n.first, n.last)

\* the attribute branch without the shift
AttrTokenId_NoShift(info, item, token) ==
  LET loc == LookupInternMacro(info.expanded.file.id)
      toks == FileToks(token.file)
      range == TokRange(TokOf(token))
  IN IF ~IsSome(item) \/ loc.kind.tag # "Attr" THEN RNone
     ELSE IF ~IsSome(Unwrap(item).attr_tt) THEN RNone
     ELSE IF ~ContainsRange(NodeRange(toks, Unwrap(Unwrap(item).attr_tt)), range) THEN RNone
     ELSE LET start == toks[Unwrap(Unwrap(item).attr_tt).first].s
              id == TokenByRange(loc.kind.attr_args.map, Unwrap(CheckedSub(range, start)))
          IN IF IsSome(id) THEN RSome(Unwrap(id)) ELSE [tag |-> "Return"]

\* map_token_down, the attribute branch: the id of a token of the invoking
\* attribute's input, shifted above the ids of the item
AttrTokenId(info, item, token) ==
  LET loc == LookupInternMacro(info.expanded.file.id)
      toks == FileToks(token.file)
      range == TokRange(TokOf(token))
  IN IF ~IsSome(item) THEN RNone
     ELSE IF loc.kind.tag # "Attr" THEN RNone
     ELSE IF ~IsSome(Unwrap(item).attr_tt) THEN RNone
     ELSE IF ~ContainsRange(NodeRange(toks, Unwrap(Unwrap(item).attr_tt)), range) THEN RNone
     ELSE LET start == toks[Unwrap(Unwrap(item).attr_tt).first].s
              rel == Unwrap(CheckedSub(range, start))
              id == TokenByRange(loc.kind.attr_args.map, rel)
          IN IF IsSome(id) THEN RSome(ShiftId(info.macro_arg_shift, Unwrap(id)))
             ELSE [tag |-> "Return"]

RECURSIVE CoverAll(_, _, _)
CoverAll(h, n, ranges) ==
  IF ranges = <<>> THEN <<>>
  ELSE LET c == CoveringToken(h, n, ranges[1])
       IN (IF c.tag = "Some" THEN <<c.v>> ELSE <<>>) \o CoverAll(h, n, Tail(ranges))

\* map_token_down: the id under which the token is looked up in the
\* expansion's map
DownTokenId(info, item, token) ==
  LET a == AttrTokenId(info, item, token)
      rel == CheckedSub(TokRange(TokOf(token)), NodeStart(info.arg))
      id == IF IsSome(rel) THEN TokenByRange(info.macro_arg.map, Unwrap(rel)) ELSE None
  IN IF a.tag = "Return" THEN RNone
     ELSE IF a.tag = "Some" THEN a
     ELSE IF IsSome(id) THEN RSome(MapIdDown(info.macro_def, Unwrap(id)))
     ELSE RNone

\* map_token_down that stops at the first range of the id
MapTokenDown_FirstRange(info, item, token) ==
  LET token_id == DownTokenId(info, item, token)
      ranges == RangesByToken(info.exp_map, token_id.v, TokOf(token).kind)
  IN IF token_id.tag # "Some" THEN RNone
     ELSE RSome(CoverAll(info.expanded.file, NodeOf(info.expanded),
                         IF ranges = <<>> THEN <<>> ELSE <<ranges[1]>>))

\* ExpansionInfo::map_token_down
MapTokenDown(info, item, token) ==
  LET token_id == DownTokenId(info, item, token)
  IN IF token_id.tag # "Some" THEN RNone
     ELSE RSome(CoverAll(info.expanded.file, NodeOf(info.expanded),
                         RangesByToken(info.exp_map, token_id.v, TokOf(token).kind)))

\* ExpansionInfo::map_token_up
MapTokenUp(info, token) ==
  LET loc == LookupInternMacro(info.expanded.file.id)
      \* the token map and the tree in which the id is looked up
      Select(up, un) ==
        IF loc.kind.tag = "Attr"
        THEN (IF IsSome(un)
              THEN (IF IsSome(info.attr_input_or_mac_def)
                    THEN RSome([id |-> Unwrap(un), map |-> loc.kind.attr_args.map,
                                tt |-> Unwrap(info.attr_input_or_mac_def)])
                    ELSE RNone)
              ELSE RSome([id |-> up.id, map |-> info.macro_arg.map, tt |-> info.arg]))
        ELSE IF up.origin = "Call"
        THEN RSome([id |-> up.id, map |-> info.macro_arg.map, tt |-> info.arg])
        ELSE IF defs[info.macro_def].kind = "Declarative" /\ IsSome(info.attr_input_or_mac_def)
        THEN RSome([id |-> up.id, map |-> defs[info.macro_def].conv.map,
                    tt |-> Unwrap(info.attr_input_or_mac_def)])
        ELSE RPanic
      Covering(up, c) ==
        IF c.tag = "Some" THEN RSome([tok |-> c.v, origin |-> up.origin]) ELSE c
      InTree(up, v, range) ==
        IF ~IsSome(range) THEN RNone
        ELSE Covering(up, CoveringToken(v.tt.file, NodeOf(v.tt),
                                        AddOffset(Unwrap(range), NodeStart(v.tt))))
      Resolve(up, sel) ==
        IF sel.tag # "Some" THEN sel
        ELSE InTree(up, sel.v, FirstRangeByToken(sel.v.map, sel.v.id, TokOf(token).kind))
      Up(up) == Resolve(up, Select(up, Unshift(info.macro_arg_shift, up.id)))
      WithId(id0) ==
        IF ~IsSome(id0) THEN RNone ELSE Up(MapIdUp(info.macro_def, Unwrap(id0)))
  IN WithId(TokenByRange(info.exp_map, TokRange(TokOf(token))))

(***************************************************************************)
(* Range ascension.                                                        *)
(***************************************************************************)
RECURSIVE AscendCallToken(_, _)
\* ascend_call_token without the test of the origin
AscendCallToken_AnyOrigin(expansion, token) ==
  LET Next1(tok, info) ==
        IF IsSome(info) THEN AscendCallToken(Unwrap(info), tok) ELSE RSome(tok)
      Step(up) ==
        IF up.tag # "Some" THEN up
        ELSE Next1(up.v.tok, ExpansionInfo(up.v.tok.file))
  IN Step(MapTokenUp(expansion, token))

\* ascend_call_token that stops after one step up
AscendCallToken_OneStep(expansion, token) ==
  LET Step(up) ==
        IF up.tag # "Some" THEN up
        ELSE IF up.v.origin # "Call" THEN RNone
        ELSE RSome(up.v.tok)
  IN Step(MapTokenUp(expansion, token))

\* ascend_call_token
AscendCallToken(expansion, token) ==
  LET Next1(tok, info) ==
        IF IsSome(info) THEN AscendCallToken(Unwrap(info), tok) ELSE RSome(tok)
      Step(up) ==
        IF up.tag # "Some" THEN up
        ELSE IF up.v.origin # "Call" THEN RNone
        ELSE Next1(up.v.tok, ExpansionInfo(up.v.tok.file))
  IN Step(MapTokenUp(expansion, token))

\* the closure without the test for a node collapsed to one token
AscendNode_NoCollapseTest(expansion, file, it, single) ==
  LET Ends(f, l, first, last) ==
        IF ~IsSome(f) THEN RNone
        ELSE IF first.tag # "Some" THEN first
        ELSE IF ~IsSome(l) THEN RNone
        ELSE IF last.tag # "Some" THEN last
        ELSE IF first.v.file # last.v.file THEN RNone
        ELSE RSome([file |-> first.v.file,
                    range |-> Cover(TokRange(TokOf(first.v)), TokRange(TokOf(last.v)))])
      Tokens(f, l) ==
        Ends(f, l, AscendCallToken(expansion, InTok(file, Unwrap(f))),
                   AscendCallToken(expansion, InTok(file, Unwrap(l))))
  IN Tokens(SkipTrivia(FileToks(file), it.first, 1), SkipTrivia(FileToks(file), it.last, -1))

\* the closure of original_range_opt applied to the descendant `it`
AscendNode(expansion, file, it, single) ==
  LET Ends(f, l, first, last) ==
        IF ~IsSome(f) THEN RNone
        ELSE IF first.tag # "Some" THEN first
        ELSE IF ~IsSome(l) THEN RNone
        ELSE IF last.tag # "Some" THEN last
        ELSE IF (~single /\ first.v = last.v) \/ first.v.file # last.v.file THEN RNone
        ELSE RSome([file |-> first.v.file,
                    range |-> Cover(TokRange(TokOf(first.v)), TokRange(TokOf(last.v)))])
      Tokens(f, l) ==
        Ends(f, l, AscendCallToken(expansion, InTok(file, Unwrap(f))),
                   AscendCallToken(expansion, InTok(file, Unwrap(l))))
  IN Tokens(SkipTrivia(FileToks(file), it.first, 1), SkipTrivia(FileToks(file), it.last, -1))

RECURSIVE FindMap(_, _, _, _)
\* find_map over the descendants: the first that ascends to a range
FindMap(expansion, file, its, single) ==
  LET Found(res) ==
        IF res.tag = "None" THEN FindMap(expansion, file, Tail(its), single) ELSE res
  IN IF its = <<>> THEN RNone
     ELSE Found(AscendNode(expansion, file, its[1], single))

\* original_range_opt
OriginalRangeOpt(node) ==
  LET Ascend1(expansion, f, l) ==
        IF ~IsSome(expansion) THEN RNone
        ELSE IF ~IsSome(f) \/ ~IsSome(l) THEN RNone
        ELSE FindMap(Unwrap(expansion), node.file,
                     Descendants(FileToks(node.file), NodeOf(node)), f = l)
  IN Ascend1(ExpansionInfo(node.file),
             SkipTrivia(FileToks(node.file), node.first, 1),
             SkipTrivia(FileToks(node.file), node.last, -1))

FileRange(file_id, range) == [file_id |-> file_id, range |-> range]

\* InFile<&SyntaxNode>::original_file_range_opt
OriginalFileRangeOpt(node) ==
  LET Result(res) ==
        IF res.tag = "Panic" THEN RPanic
        ELSE IF res.tag = "Some"
        THEN RSome(FileRange(OriginalFile(res.v.file), res.v.range))
        ELSE IF ~IsMacro(node.file)
        THEN RSome(FileRange(OriginalFile(node.file),
                             NodeRange(FileToks(node.file), NodeOf(node))))
        ELSE RNone
  IN Result(OriginalRangeOpt(node))

RECURSIVE WholeMacroCall(_)
RECURSIVE AncestorsWithMacros(_)
\* the loop of original_file_range: climb the call nodes up to a real file
WholeMacroCall(node) ==
  IF IsSome(CallNode(node.file)) THEN WholeMacroCall(Unwrap(CallNode(node.file)))
  ELSE node

\* InFile<&SyntaxNode>::original_file_range
OriginalFileRange(node) ==
  LET Fallback(call, orig_file) ==
        IF call.file # RealFile(orig_file) THEN RPanic
        ELSE RSome(FileRange(orig_file, NodeRange(FileToks(call.file), NodeOf(call))))
      Climb(call) == Fallback(call, OriginalFile(call.file))
      Result(res) == IF res.tag # "None" THEN res ELSE Climb(WholeMacroCall(node))
  IN Result(OriginalFileRangeOpt(node))

\* SyntaxNode::parent: the smallest node of the file that strictly encloses n
ParentNode(toks, n) ==
  LET above == {m \in Nodes(toks) : m.first <= n.first /\ n.last <= m.last /\ m # n}
  IN IF above = {} THEN None
     ELSE Some(CHOOSE m \in above : \A x \in above : m.last - m.first <= x.last - x.first)

\* ancestors_with_macros that ends at the root of the node's own file
AncestorsWithMacros_StopAtRoot(node) ==
  LET Successor(parent) ==
        IF IsSome(parent) THEN AncestorsWithMacros(InFile(node.file, Unwrap(parent)))
        ELSE <<>>
  IN <<node>> \o Successor(ParentNode(FileToks(node.file), NodeOf(node)))

\* InFile<SyntaxNode>::ancestors_with_macros: the node, its ancestors in its
\* file, then the call node of the file and its ancestors, and so on
AncestorsWithMacros(node) ==
  LET Successor(parent) ==
        IF IsSome(parent) THEN AncestorsWithMacros(InFile(node.file, Unwrap(parent)))
        ELSE IF IsSome(CallNode(node.file))
        THEN AncestorsWithMacros(Unwrap(CallNode(node.file)))
        ELSE <<>>
  IN <<node>> \o Successor(ParentNode(FileToks(node.file), NodeOf(node)))

\* AstId::to_node: the node of the call in the parse of its file; the parse is
\* unwrapped, so a file without a parse is a panic
AstIdToNode(file_id, ast_id) ==
  IF ~HasParse(file_id) THEN RPanic
  ELSE RSome(CallSite(FileToks(file_id), ast_id))

\* HirFileId::call_node with the outcome of AstId::to_node
CallNodeChecked(h) ==
  IF ~IsMacro(h) THEN RNone
  ELSE IF AstIdToNode(KindFileId(LookupInternMacro(h.id).kind),
                      LookupInternMacro(h.id).kind.ast_id).tag = "Panic" THEN RPanic
  ELSE RSome(Unwrap(CallNode(h)))

\* HirFileId::expansion_info with the outcome of AstId::to_node in
\* MacroCallKind::arg, its first step
ExpansionInfoChecked(h) ==
  IF ~IsMacro(h) THEN RNone
  ELSE IF AstIdToNode(KindFileId(LookupInternMacro(h.id).kind),
                      LookupInternMacro(h.id).kind.ast_id).tag = "Panic" THEN RPanic
  ELSE IF IsSome(ExpansionInfo(h)) THEN RSome(Unwrap(ExpansionInfo(h)))
  ELSE RNone

(***************************************************************************)
(* Queries.                                                                *)
(***************************************************************************)
Expanded == {c \in CallIds : IsSome(ExpansionInfo(MacroFile(c)))}
InfoOf(c) == Unwrap(ExpansionInfo(MacroFile(c)))
TokensOf(h) == {InTok(h, i) : i \in 1..Len(FileToks(h))}
\* the tokens of the macro call or attributed item of call c
CallTokens(c) ==
  LET n == KindToNode(LookupInternMacro(c).kind)
  IN {InTok(n.file, i) : i \in n.first..n.last}
\* the nodes a query is made of: any node of an expansion; of a real file, the
\* root and the macro calls
NodesOf(h) ==
  IF IsMacro(h) THEN {InFile(h, n) : n \in Nodes(FileToks(h))}
  ELSE {InFile(h, n) : n \in {Node(1, Len(FileToks(h)))}
                            \cup {c.node : c \in CallSites(FileToks(h))}}
ParsedFiles == {h \in FileIds : HasParse(h)}

\* the item a caller hands to map_token_down: none, or the attributed item of
\* the call
ItemsOf(c) ==
  LET kind == LookupInternMacro(c).kind
  IN {None} \cup (IF kind.tag = "FnLike" THEN {}
                  ELSE {Some(CallSite(FileToks(kind.file_id), kind.ast_id))})

QExpansionLevel ==
  \E h \in FileIds :
    /\ q = Idle
    /\ q' = [op |-> "expansion_level", file |-> h]
    /\ r' = ExpansionLevel(h)
    /\ UNCHANGED <<files, defs, interner, db>>

QOriginalFile ==
  \E h \in FileIds :
    /\ q = Idle
    /\ q' = [op |-> "original_file", file |-> h]
    /\ r' = OriginalFile(h)
    /\ UNCHANGED <<files, defs, interner, db>>

QMapTokenDown ==
  \E c \in Expanded : \E item \in ItemsOf(c) : \E t \in CallTokens(c) :
    /\ q = Idle
    /\ q' = [op |-> "map_token_down", call |-> c, item |-> item, token |-> t]
    /\ r' = MapTokenDown(InfoOf(c), item, t)
    /\ UNCHANGED <<files, defs, interner, db>>

QMapTokenUp ==
  \E c \in Expanded : \E t \in TokensOf(MacroFile(c)) :
    /\ q = Idle
    /\ q' = [op |-> "map_token_up", call |-> c, token |-> t]
    /\ r' = MapTokenUp(InfoOf(c), t)
    /\ UNCHANGED <<files, defs, interner, db>>

QAscendCallToken ==
  \E c \in Expanded : \E t \in TokensOf(MacroFile(c)) :
    /\ q = Idle
    /\ q' = [op |-> "ascend_call_token", call |-> c, token |-> t]
    /\ r' = AscendCallToken(InfoOf(c), t)
    /\ UNCHANGED <<files, defs, interner, db>>

QOriginalFileRangeOpt ==
  \E h \in ParsedFiles : \E n \in NodesOf(h) :
    /\ q = Idle
    /\ q' = [op |-> "original_file_range_opt", node |-> n]
    /\ r' = OriginalFileRangeOpt(n)
    /\ UNCHANGED <<files, defs, interner, db>>

QOriginalFileRange ==
  \E h \in ParsedFiles : \E n \in NodesOf(h) :
    /\ q = Idle
    /\ q' = [op |-> "original_file_range", node |-> n]
    /\ r' = OriginalFileRange(n)
    /\ UNCHANGED <<files, defs, interner, db>>

QAncestorsWithMacros ==
  \E h \in ParsedFiles : \E n \in NodesOf(h) :
    /\ q = Idle
    /\ q' = [op |-> "ancestors_with_macros", node |-> n]
    /\ r' = AncestorsWithMacros(n)
    /\ UNCHANGED <<files, defs, interner, db>>

\* the caller takes the result
Return ==
  /\ q # Idle
  /\ q' = Idle
  /\ r' = NoResult
  /\ UNCHANGED <<files, defs, interner, db>>

Next ==
  \/ AsLazyMacro
  \/ InternEager
  \/ QExpansionLevel
  \/ QOriginalFile
  \/ QMapTokenDown
  \/ QMapTokenUp
  \/ QAscendCallToken
  \/ QOriginalFileRangeOpt
  \/ QOriginalFileRange
  \/ QAncestorsWithMacros
  \/ Return

Spec == Init /\ [][Next]_vars

(***************************************************************************)
(* A later revision: parse_macro_expansion of a call is evaluated again    *)
(* and has no value (its expander fails), while the interner keeps every   *)
(* call that was interned in the expansion.                                *)
(***************************************************************************)
ExpansionFails ==
  \E c \in CallIds :
    /\ q = Idle
    /\ IsSome(db[c].exp)
    /\ db' = [db EXCEPT ![c].exp = None]
    /\ UNCHANGED <<files, defs, interner, q, r>>

QExpansionInfo ==
  \E h \in FileIds :
    /\ q = Idle
    /\ q' = [op |-> "expansion_info", file |-> h]
    /\ r' = ExpansionInfoChecked(h)
    /\ UNCHANGED <<files, defs, interner, db>>

QCallNode ==
  \E h \in FileIds :
    /\ q = Idle
    /\ q' = [op |-> "call_node", file |-> h]
    /\ r' = CallNodeChecked(h)
    /\ UNCHANGED <<files, defs, interner, db>>

NextStale ==
  \/ AsLazyMacro
  \/ InternEager
  \/ ExpansionFails
  \/ QExpansionInfo
  \/ QCallNode
  \/ Return

SpecStale == Init /\ [][NextStale]_vars

(***************************************************************************)
(* Third specification: the syntax bridge on its own.  The one file holds  *)
(* any short token sequence a lexer can produce, balanced or not;          *)
(* parse_to_token_tree converts it and token_tree_to_syntax_node turns the *)
(* token tree back into syntax under the events of the parser.             *)
(***************************************************************************)
\* the longest text the bridge is given, in tokens
MaxLen == 4

BridgeAlphabet == {LP, RP, LB, COMMA, SEMI, MINUS, UNDERSCORE, Id1("a"), LIFETIME, WS}

\* the lexer joins adjacent identifiers, underscores and whitespace
LexerOutput(raw) ==
  \A i \in 1..(Len(raw) - 1) :
    /\ ~(raw[i].kind \in {"IDENT", "UNDERSCORE", "LIFETIME_IDENT"}
         /\ raw[i + 1].kind \in {"IDENT", "UNDERSCORE"})
    /\ ~(raw[i].kind = "WHITESPACE" /\ raw[i + 1].kind = "WHITESPACE")

\* every text of up to MaxLen tokens, and the text `( a, b`
BridgeTexts ==
  {raw \in UNION {[1..n -> BridgeAlphabet] : n \in 0..MaxLen} : LexerOutput(raw)}
  \cup {<<LP, WS, Id1("a"), COMMA, WS, Id1("b")>>}

InitBridge ==
  /\ \E raw \in BridgeTexts : files = [f \in {MainFileId} |-> Layout(raw)]
  /\ defs = <<>>
  /\ interner = <<>>
  /\ db = <<>>
  /\ q = Idle
  /\ r = NoResult

QParseToTokenTree ==
  /\ q = Idle
  /\ q' = [op |-> "parse_to_token_tree", node |-> Node(1, Len(files[MainFileId]))]
  /\ r' = ParseToTokenTree(files[MainFileId])
  /\ UNCHANGED <<files, defs, interner, db>>

\* how many nodes the parser may open for one token tree
MaxNodes == 2

\* the start_node and finish_node events of one run of the parser: every node
\* that is started is finished, and none is finished before it is started
ParserEvents ==
  {ev \in UNION {[1..n -> {"start", "finish"}] : n \in 0..(2 * MaxNodes)} :
     /\ \A i \in 1..Len(ev) :
          Cardinality({j \in 1..i : ev[j] = "start"})
            >= Cardinality({j \in 1..i : ev[j] = "finish"})
     /\ Cardinality({j \in 1..Len(ev) : ev[j] = "start"})
          = Cardinality({j \in 1..Len(ev) : ev[j] = "finish"})}

\* start_node that counts every node as a root
StartNode_AlwaysPush(roots) == Append(roots, 1)

\* TtTreeSink::start_node on the root counters
StartNode(roots) ==
  IF Len(roots) = 0 \/ roots[Len(roots)] = 0
  THEN Append(roots, 1)
  ELSE [roots EXCEPT ![Len(roots)] = @ + 1]

\* TtTreeSink::finish_node on the root counters
FinishNode(roots) == [roots EXCEPT ![Len(roots)] = @ - 1]

RECURSIVE RootsAfter(_, _)
\* tree_sink.roots after the first i node events
RootsAfter(events, i) ==
  IF i = 0 THEN <<>>
  ELSE IF events[i] = "start" THEN StartNode(RootsAfter(events, i - 1))
  ELSE FinishNode(RootsAfter(events, i - 1))

\* token_tree_to_syntax_node with the check of the roots
TokenTreeToSyntaxNodeChecked(tt, events) ==
  IF Len(RootsAfter(events, Len(events))) # 1
  THEN [tag |-> "Err", error |-> "ConversionError"]
  ELSE [tag |-> "Ok", value |-> TokenTreeToSyntaxNode(tt)]

QTokenTreeToSyntaxNode ==
  \E events \in ParserEvents :
    /\ q = Idle
    /\ q' = [op |-> "token_tree_to_syntax_node", events |-> events]
    /\ r' = TokenTreeToSyntaxNodeChecked(ParseToTokenTree(files[MainFileId]).tt, events)
    /\ UNCHANGED <<files, defs, interner, db>>

\* the token tree a built-in expander makes up with the same shape: its
\* leaves and delimiters have no identity
Fabricated(tt) == [i \in 1..Len(tt) |-> [tt[i] EXCEPT !.id = Unspecified]]

\* token_tree_to_syntax_node on a token tree made up by a built-in expander
QTokenTreeToSyntaxNodeFabricated ==
  \E events \in ParserEvents :
    /\ q = Idle
    /\ q' = [op |-> "token_tree_to_syntax_node_fabricated", events |-> events]
    /\ r' = TokenTreeToSyntaxNodeChecked(Fabricated(ParseToTokenTree(files[MainFileId]).tt),
                                          events)
    /\ UNCHANGED <<files, defs, interner, db>>

\* the conversion of a node of the file that ends where the file ends
QSyntaxNodeToTokenTree ==
  \E first \in 1..Len(files[MainFileId]) :
    /\ q = Idle
    /\ q' = [op |-> "syntax_node_to_token_tree", node |-> Node(first, Len(files[MainFileId]))]
    /\ r' = SyntaxNodeToTokenTree(files[MainFileId], first, Len(files[MainFileId]))
    /\ UNCHANGED <<files, defs, interner, db>>

RECURSIVE OpenBefore(_, _)
\* the opening delimiters still open after the first i tokens of a text, the
\* innermost last: a closing delimiter closes the innermost one if it is of
\* its kind
OpenBefore(toks, i) ==
  IF i = 0 THEN <<>>
  ELSE LET s == OpenBefore(toks, i - 1) IN
       IF Len(s) > 0 /\ toks[i].kind = CloseOf(toks[s[Len(s)]].kind)
       THEN SubSeq(s, 1, Len(s) - 1)
       ELSE IF toks[i].kind \in OpenKinds THEN Append(s, i) ELSE s

\* token i is a closing delimiter that closes the innermost open delimiter
MatchingCloser(toks, i) ==
  /\ toks[i].kind \in CloseKinds
  /\ Len(OpenBefore(toks, i - 1)) > 0
  /\ toks[i].kind = CloseOf(toks[OpenBefore(toks, i - 1)[Len(OpenBefore(toks, i - 1))]].kind)

UnmatchedClosers(toks) ==
  {i \in 1..Len(toks) : toks[i].kind \in CloseKinds /\ ~MatchingCloser(toks, i)}

\* the opening delimiter that token i closes
OpenerOf(toks, i) == OpenBefore(toks, i - 1)[Len(OpenBefore(toks, i - 1))]

\* nodes of the text that a caller may censor: a name, a lifetime or `_` on
\* its own, a delimited group, a prefix expression `-a`
CensorableNodes(toks) ==
  {Node(a, a) : a \in {i \in 1..Len(toks) :
                         toks[i].kind \in {"IDENT", "LIFETIME_IDENT", "UNDERSCORE"}}}
  \cup {Node(OpenerOf(toks, b), b) : b \in {i \in 1..Len(toks) : MatchingCloser(toks, i)}}
  \cup {Node(a, a + 1) :
          a \in {i \in 1..(Len(toks) - 1) :
                   toks[i].kind = "MINUS" /\ toks[i + 1].kind = "IDENT"}}

\* the conversion of the whole file with one of its nodes censored
QSyntaxNodeToTokenTreeCensored ==
  \E c \in CensorableNodes(files[MainFileId]) :
    /\ q = Idle
    /\ q' = [op |-> "syntax_node_to_token_tree_censored",
             node |-> Node(1, Len(files[MainFileId])), censor |-> {c}]
    /\ r' = SyntaxNodeToTokenTreeCensored(files[MainFileId], 1, Len(files[MainFileId]), {c})
    /\ UNCHANGED <<files, defs, interner, db>>

NextBridge ==
  \/ QParseToTokenTree
  \/ QSyntaxNodeToTokenTree
  \/ QSyntaxNodeToTokenTreeCensored
  \/ QTokenTreeToSyntaxNode
  \/ QTokenTreeToSyntaxNodeFabricated
  \/ Return

SpecBridge == InitBridge /\ [][NextBridge]_vars

(***************************************************************************)
(* Fourth specification: ExpandTo::from_call_site.  The one file holds a   *)
(* macro call under a parent node of any kind, or a call with no parent.   *)
(***************************************************************************)
ItemsKinds == {"MACRO_ITEMS", "SOURCE_FILE", "ITEM_LIST"}
StatementsKinds == {"MACRO_STMTS", "EXPR_STMT", "STMT_LIST"}
ExprKinds ==
  {"ARG_LIST", "TRY_EXPR", "TUPLE_EXPR", "PAREN_EXPR", "ARRAY_EXPR", "FOR_EXPR",
   "PATH_EXPR", "CLOSURE_EXPR", "CONDITION", "BREAK_EXPR", "RETURN_EXPR",
   "MATCH_EXPR", "MATCH_ARM", "MATCH_GUARD", "RECORD_EXPR_FIELD", "CALL_EXPR",
   "INDEX_EXPR", "METHOD_CALL_EXPR", "FIELD_EXPR", "AWAIT_EXPR", "CAST_EXPR",
   "REF_EXPR", "PREFIX_EXPR", "RANGE_EXPR", "BIN_EXPR"}

\* node kinds of the grammar that no arm of from_call_site names
OtherNodeKinds ==
  {"FN", "STRUCT", "ENUM", "UNION", "TRAIT", "IMPL", "MODULE", "CONST", "STATIC",
   "TYPE_ALIAS", "USE", "EXTERN_BLOCK", "EXTERN_ITEM_LIST", "ASSOC_ITEM_LIST",
   "VARIANT", "BLOCK_EXPR", "IF_EXPR", "WHILE_EXPR", "LOOP_EXPR", "YIELD_EXPR",
   "BOX_EXPR", "RECORD_EXPR", "MATCH_ARM_LIST", "ARRAY_TYPE", "CONST_ARG",
   "TOKEN_TREE", "MACRO_RULES", "MACRO_DEF", "ATTR", "PARAM"}

ParentKinds ==
  ItemsKinds \cup StatementsKinds \cup ExprKinds \cup OtherNodeKinds
    \cup {"MACRO_PAT", "MACRO_TYPE", "LET_STMT"}

\* from_call_site that takes every kind it does not know for a statement
FromCallSite_DefaultStatements(parent) ==
  IF ~IsSome(parent) THEN "Statements"
  ELSE IF Unwrap(parent) \in ItemsKinds THEN "Items"
  ELSE IF Unwrap(parent) = "MACRO_PAT" THEN "Pattern"
  ELSE IF Unwrap(parent) = "MACRO_TYPE" THEN "Type"
  ELSE IF Unwrap(parent) \in ExprKinds \cup {"LET_STMT"} THEN "Expr"
  ELSE "Statements"

\* ExpandTo::from_call_site, from the kind of the parent of the call if it has one
FromCallSite(parent) ==
  IF ~IsSome(parent) THEN "Statements"
  ELSE IF Unwrap(parent) \in ItemsKinds THEN "Items"
  ELSE IF Unwrap(parent) \in StatementsKinds THEN "Statements"
  ELSE IF Unwrap(parent) = "MACRO_PAT" THEN "Pattern"
  ELSE IF Unwrap(parent) = "MACRO_TYPE" THEN "Type"
  ELSE IF Unwrap(parent) \in ExprKinds THEN "Expr"
  ELSE IF Unwrap(parent) = "LET_STMT" THEN "Expr"
  ELSE "Items"

InitExpandTo ==
  /\ \E parent \in {None} \cup {Some(k) : k \in ParentKinds} :
       files = [f \in {MainFileId} |-> [kind |-> "MACRO_CALL", parent |-> parent]]
  /\ defs = <<>>
  /\ interner = <<>>
  /\ db = <<>>
  /\ q = Idle
  /\ r = NoResult

QFromCallSite ==
  /\ q = Idle
  /\ q' = [op |-> "from_call_site", call |-> files[MainFileId]]
  /\ r' = [tag |-> "ExpandTo", v |-> FromCallSite(files[MainFileId].parent)]
  /\ UNCHANGED <<files, defs, interner, db>>

NextExpandTo ==
  \/ QFromCallSite
  \/ Return

SpecExpandTo == InitExpandTo /\ [][NextExpandTo]_vars

(***************************************************************************)
(* Fifth specification: highlight_related.  The file holds the one or two  *)
(* tokens at the cursor; the configuration is any of the sixteen.          *)
(***************************************************************************)
HlTok(kind, parent) == [kind |-> kind, parent |-> parent]

\* the tokens a cursor can touch: `?` of a try expression and of a macro
\* repetition, the keywords and the arrow of the feature, `for` of a loop and
\* of an impl, a name, a keyword and a punct of no interest, whitespace
CursorTokens ==
  {HlTok("QUESTION", "TRY_EXPR"), HlTok("QUESTION", "TOKEN_TREE"),
   HlTok("FN_KW", "FN"), HlTok("RETURN_KW", "RETURN_EXPR"), HlTok("THIN_ARROW", "RET_TYPE"),
   HlTok("AWAIT_KW", "AWAIT_EXPR"), HlTok("ASYNC_KW", "FN"),
   HlTok("FOR_KW", "FOR_EXPR"), HlTok("FOR_KW", "IMPL"),
   HlTok("BREAK_KW", "BREAK_EXPR"), HlTok("LOOP_KW", "LOOP_EXPR"),
   HlTok("WHILE_KW", "WHILE_EXPR"),
   HlTok("IDENT", "NAME_REF"), HlTok("LET_KW", "LET_STMT"),
   HlTok("SEMICOLON", "EXPR_STMT"), HlTok("WHITESPACE", "STMT_LIST")}

HlKeywords ==
  {"FN_KW", "RETURN_KW", "AWAIT_KW", "ASYNC_KW", "FOR_KW", "BREAK_KW", "LOOP_KW",
   "WHILE_KW", "LET_KW"}

HighlightRelatedConfigs ==
  [references : BOOLEAN, exit_points : BOOLEAN, break_points : BOOLEAN,
   yield_points : BOOLEAN]

\* the priority highlight_related gives a token kind
TokenPriority(kind) ==
  IF kind = "QUESTION" THEN 4
  ELSE IF kind = "THIN_ARROW" THEN 3
  ELSE IF kind \in HlKeywords THEN 2
  ELSE IF kind = "IDENT" THEN 1
  ELSE 0

\* pick_best_token on the tokens at the offset, left to right: the last of
\* the tokens of highest priority
PickBestToken(at) ==
  IF Len(at) = 1 THEN at[1]
  ELSE IF TokenPriority(at[2].kind) >= TokenPriority(at[1].kind) THEN at[2]
  ELSE at[1]

Highlights(kind, of) == [tag |-> "Some", kind |-> kind, of |-> of]
NoHighlights == [tag |-> "None"]

\* highlight_references: the references of the names at the offset, None
\* if there is no name there
HighlightReferences(at) ==
  IF \E i \in 1..Len(at) : at[i].kind = "IDENT"
  THEN Highlights("references", {at[i] : i \in {j \in 1..Len(at) : at[j].kind = "IDENT"}})
  ELSE NoHighlights

\* highlight_related that falls back to the exit points without asking
HighlightRelated_ExitUnguarded(config, at) ==
  IF PickBestToken(at).kind \in {"FN_KW", "RETURN_KW", "THIN_ARROW"}
  THEN Highlights("exit_points", {PickBestToken(at)})
  ELSE IF config.references THEN HighlightReferences(at)
  ELSE NoHighlights

\* highlight_related: the match on the kind of the picked token
HighlightRelated(config, at) ==
  LET Dispatch(token) ==
        IF /\ token.kind = "QUESTION" /\ config.exit_points
           /\ token.parent = "TRY_EXPR"
        THEN Highlights("exit_points", {token})
        ELSE IF token.kind \in {"FN_KW", "RETURN_KW", "THIN_ARROW"} /\ config.exit_points
        THEN Highlights("exit_points", {token})
        ELSE IF token.kind \in {"AWAIT_KW", "ASYNC_KW"} /\ config.yield_points
        THEN Highlights("yield_points", {token})
        ELSE IF /\ token.kind = "FOR_KW" /\ config.break_points
                /\ token.parent = "FOR_EXPR"
        THEN Highlights("break_points", {token})
        ELSE IF token.kind \in {"BREAK_KW", "LOOP_KW", "WHILE_KW"} /\ config.break_points
        THEN Highlights("break_points", {token})
        ELSE IF config.references THEN HighlightReferences(at)
        ELSE NoHighlights
  IN Dispatch(PickBestToken(at))

InitHighlight ==
  /\ \E at \in [1..1 -> CursorTokens] \cup [1..2 -> CursorTokens] :
       files = [f \in {MainFileId} |-> at]
  /\ \E config \in HighlightRelatedConfigs : defs = config
  /\ interner = <<>>
  /\ db = <<>>
  /\ q = Idle
  /\ r = NoResult

QHighlightRelated ==
  /\ q = Idle
  /\ q' = [op |-> "highlight_related", config |-> defs, at |-> files[MainFileId]]
  /\ r' = HighlightRelated(defs, files[MainFileId])
  /\ UNCHANGED <<files, defs, interner, db>>

NextHighlight ==
  \/ QHighlightRelated
  \/ Return

SpecHighlight == InitHighlight /\ [][NextHighlight]_vars

(***************************************************************************)
(* Sixth specification: the Convertor that walks the tokens of a syntax    *)
(* node.  The one file holds the tokens of a text, db the convertor,       *)
(* interner the (token, range) pairs that bump has returned so far, q the  *)
(* last call and r what it returned.                                       *)
(***************************************************************************)
\* how many tokens a text walked by a convertor may have
MaxConvLen == 3

ARROW == Tok("THIN_ARROW", "->", 2)
DOTDOTEQ == Tok("DOTDOTEQ", "..=", 3)

ConvertorAlphabet == {ARROW, DOTDOTEQ, UNDERSCORE, Id1("a"), WS}

ConvertorTexts ==
  {raw \in UNION {[1..n -> ConvertorAlphabet] : n \in 1..MaxConvLen} : LexerOutput(raw)}

\* SynToken: a token of the file, for a punctuation token with the offset of
\* one of its characters
Ordinary(i) == [t |-> "Ordinary", token |-> i]
Punch(i, offset) == [t |-> "Punch", token |-> i, offset |-> offset]

\* Convertor::next_token: the first token of the node after token i that is
\* in no censored node
NextToken(node, censor, i) ==
  LET rest == {j \in (i + 1)..node.last :
                 \A c \in censor : ~(c.first <= j /\ j <= c.last)}
  IN IF rest = {} THEN None ELSE Some(MinOf(rest))

\* Convertor::new
ConvertorNew(toks, node, censor) ==
  [current |-> NextToken(node, censor, node.first - 1),
   node |-> node,
   censor |-> censor,
   range |-> Range(toks[node.first].s, toks[node.last].e),
   punct_offset |-> None]

\* Convertor::bump: the convertor after the call and what the call returns
ConvertorBump(toks, cv) ==
  IF /\ IsSome(cv.punct_offset)
     /\ Unwrap(cv.punct_offset).offset + 1
          < toks[Unwrap(cv.punct_offset).token].e - toks[Unwrap(cv.punct_offset).token].s
  THEN LET punct == Unwrap(cv.punct_offset).token
           offset == Unwrap(cv.punct_offset).offset + 1
       IN [cv |-> [cv EXCEPT !.punct_offset = Some(Punch(punct, offset))],
           ret |-> Some([token |-> Punch(punct, offset),
                         range |-> Range(toks[punct].s + offset,
                                         toks[punct].s + offset + 1)])]
  ELSE IF ~IsSome(cv.current) THEN [cv |-> cv, ret |-> None]
  ELSE IF ~ContainsRange(cv.range, TokRange(toks[Unwrap(cv.current)]))
  THEN [cv |-> cv, ret |-> None]
  ELSE LET curr == Unwrap(cv.current)
           next == NextToken(cv.node, cv.censor, curr)
       IN IF IsPunct(toks[curr].kind)
          THEN [cv |-> [cv EXCEPT !.current = next,
                                  !.punct_offset = Some(Punch(curr, 0))],
                ret |-> Some([token |-> Punch(curr, 0),
                              range |-> Range(toks[curr].s, toks[curr].s + 1)])]
          ELSE [cv |-> [cv EXCEPT !.current = next, !.punct_offset = None],
                ret |-> Some([token |-> Ordinary(curr),
                              range |-> TokRange(toks[curr])])]

\* peek that looks at the current token only
ConvertorPeek_CurrentOnly(toks, cv) ==
  IF ~IsSome(cv.current) THEN None
  ELSE IF ~ContainsRange(cv.range, TokRange(toks[Unwrap(cv.current)])) THEN None
  ELSE IF IsPunct(toks[Unwrap(cv.current)].kind)
  THEN Some(Punch(Unwrap(cv.current), 0))
  ELSE Some(Ordinary(Unwrap(cv.current)))

\* Convertor::peek
ConvertorPeek(toks, cv) ==
  IF /\ IsSome(cv.punct_offset)
     /\ Unwrap(cv.punct_offset).offset + 1
          < toks[Unwrap(cv.punct_offset).token].e - toks[Unwrap(cv.punct_offset).token].s
  THEN Some(Punch(Unwrap(cv.punct_offset).token, Unwrap(cv.punct_offset).offset + 1))
  ELSE IF ~IsSome(cv.current) THEN None
  ELSE IF ~ContainsRange(cv.range, TokRange(toks[Unwrap(cv.current)])) THEN None
  ELSE IF IsPunct(toks[Unwrap(cv.current)].kind)
  THEN Some(Punch(Unwrap(cv.current), 0))
  ELSE Some(Ordinary(Unwrap(cv.current)))

\* a convertor for a node of the text, with at most one node inside it censored
InitConvertor ==
  /\ \E raw \in ConvertorTexts : files = [f \in {MainFileId} |-> Layout(raw)]
  /\ \E first \in 1..Len(files[MainFileId]) :
       \E last \in first..Len(files[MainFileId]) :
         \E censor \in {{}} \cup {{Node(a, b)} : a \in first..last, b \in first..last} :
           db = ConvertorNew(files[MainFileId], Node(first, last), censor)
  /\ defs = <<>>
  /\ interner = <<>>
  /\ q = Idle
  /\ r = NoResult

QBump ==
  /\ q' = [op |-> "bump"]
  /\ db' = ConvertorBump(files[MainFileId], db).cv
  /\ r' = ConvertorBump(files[MainFileId], db).ret
  /\ interner' = interner \o ConvertorBump(files[MainFileId], db).ret
  /\ UNCHANGED <<files, defs>>

QPeek ==
  /\ q' = [op |-> "peek"]
  /\ r' = ConvertorPeek(files[MainFileId], db)
  /\ UNCHANGED <<files, defs, interner, db>>

NextConvertor == QBump \/ QPeek

SpecConvertor == InitConvertor /\ [][NextConvertor]_vars

(***************************************************************************)
(* Properties.                                                             *)
(***************************************************************************)
\* the file that contains the macro call of expansion file h
ParentFile(h) == KindFileId(LookupInternMacro(h.id).kind)

HasIncludedFile(h) ==
  /\ IsMacro(h)
  /\ IsSome(LookupInternMacro(h.id).eager)
  /\ IsSome(Unwrap(LookupInternMacro(h.id).eager).included_file)

RECURSIVE ChainRoot(_)
\* the real file at the root of the parent chain of h
ChainRoot(h) == IF IsMacro(h) THEN ChainRoot(ParentFile(h)) ELSE h.id

RECURSIVE IncludeAbove(_)
\* h or a file above h on its parent chain is the expansion of an include
IncludeAbove(h) == IsMacro(h) /\ (HasIncludedFile(h) \/ IncludeAbove(ParentFile(h)))

\* C1: expansion_level of a real file is 0, and the level of an expansion file
\* is one more than the level of the file that contains its macro call.
C1_ExpansionLevel ==
  q.op = "expansion_level" =>
    IF IsMacro(q.file) THEN r = 1 + ExpansionLevel(ParentFile(q.file)) ELSE r = 0

C1_Witness ==
  /\ q.op = "expansion_level"
  /\ IsMacro(q.file)
  /\ IsMacro(ParentFile(q.file))
  /\ r = 2

\* C2 as claimed: original_file of a real file is the file; of an expansion
\* with an included_file it is that file; of any other expansion it is
\* original_file of the file containing the call, which is the real file at
\* the root of the parent chain.
C2_OriginalFileIsChainRoot ==
  q.op = "original_file" =>
    IF ~IsMacro(q.file) THEN r = q.file.id
    ELSE IF HasIncludedFile(q.file)
    THEN r = Unwrap(Unwrap(LookupInternMacro(q.file.id).eager).included_file)
    ELSE r = OriginalFile(ParentFile(q.file)) /\ r = ChainRoot(q.file)

\* C2 amended: as claimed, but original_file of the file containing the call is
\* the root of the parent chain only when no expansion above is an include.
C2_OriginalFile ==
  q.op = "original_file" =>
    IF ~IsMacro(q.file) THEN r = q.file.id
    ELSE IF HasIncludedFile(q.file)
    THEN r = Unwrap(Unwrap(LookupInternMacro(q.file.id).eager).included_file)
    ELSE /\ r = OriginalFile(ParentFile(q.file))
         /\ ~IncludeAbove(q.file) => r = ChainRoot(q.file)

C2_Witness ==
  /\ q.op = "original_file"
  /\ IsMacro(q.file)
  /\ ~HasIncludedFile(q.file)
  /\ HasIncludedFile(ParentFile(q.file))
  /\ r = IncludedFileId

NonTrivia(toks) == SelectSeq(toks, LAMBDA t : ~IsTrivia(t.kind))

\* the range in the included text of node n of an include expansion: the
\* tokens of the expansion are the tokens of the text without the trivia
IncludedRange(n) ==
  Cover(TokRange(NonTrivia(files[IncludedFileId])[n.first]), TokRange(NonTrivia(files[IncludedFileId])[n.last]))

\* C3: for a node of the expansion of an include of file F, original_file_range
\* is the node's range in the included text, in file F.
C3_IncludeRange ==
  (q.op = "original_file_range" /\ HasIncludedFile(q.node.file)) =>
    r = RSome(FileRange(Unwrap(Unwrap(LookupInternMacro(q.node.file.id).eager).included_file),
                        IncludedRange(q.node)))

\* the text of real file f at a range: the text of the token with that range
TextAt(f, range) ==
  LET hits == {i \in 1..Len(files[f]) : TokRange(files[f][i]) = range}
  IN IF hits = {} THEN "" ELSE files[f][CHOOSE i \in hits : TRUE].text

\* C4: a token that map_token_up gives with Origin::Call lies in the file of
\* the macro call and has the text of the expansion token; over nested
\* expansions, original_file_range_opt of the node of one token gives a range
\* of a real file whose text is the token's text.
C4_MapUpKeepsText ==
  /\ (q.op = "map_token_up" /\ r.tag = "Some" /\ r.v.origin = "Call") =>
       /\ r.v.tok.file = ParentFile(MacroFile(q.call))
       /\ TokOf(r.v.tok).text = TokOf(q.token).text
  /\ (q.op = "original_file_range_opt" /\ IsMacro(q.node.file)
        /\ q.node.first = q.node.last /\ r.tag = "Some") =>
       TextAt(r.v.file_id, r.v.range) = FileToks(q.node.file)[q.node.first].text

\* C5: map_token_up of every token that map_token_down yields for a token t of
\* the call is t itself, with Origin::Call.
C5_DownUpIdentity ==
  (q.op = "map_token_down" /\ r.tag = "Some") =>
    \A i \in 1..Len(r.v) :
      MapTokenUp(InfoOf(q.call), r.v[i]) = RSome([tok |-> q.token, origin |-> "Call"])

\* the attribute of an attribute call is handed to map_token_down with its item
ProperItem(c, item) == LookupInternMacro(c).kind.tag = "Attr" => IsSome(item)

\* element i of the converted tree `conv` is the conversion of the token with
\* text `text` at the range `rel` of the converted node
IsEltOf(conv, i, rel, text) ==
  /\ i <= Len(conv.tt)
  /\ conv.tt[i].id # Unspecified
  /\ conv.tt[i].text = text
  /\ \E e \in 1..Len(conv.map) :
       conv.map[e].id = conv.tt[i].id /\ EntryMatches(conv.map[e], rel)

\* the number of times the expander of call c copies token t of the call into
\* the expansion
Occurrences(c, t) ==
  LET loc == LookupInternMacro(c)
      info == InfoOf(c)
      site == CallSite(FileToks(t.file), loc.kind.ast_id)
      template == defs[loc.def].template
      argrel == CheckedSub(TokRange(TokOf(t)), NodeStart(info.arg))
      attrrel == IF IsSome(site.attr_tt)
                 THEN CheckedSub(TokRange(TokOf(t)),
                                 FileToks(t.file)[Unwrap(site.attr_tt).first].s)
                 ELSE None
      Copies(te) ==
        IF te.t = "Arg"
        THEN IsSome(argrel) /\ IsEltOf(info.macro_arg, te.i, Unwrap(argrel), TokOf(t).text)
        ELSE IF te.t = "Attr"
        THEN IsSome(attrrel) /\ IsEltOf(loc.kind.attr_args, te.i, Unwrap(attrrel), TokOf(t).text)
        ELSE FALSE
  IN IF HasIncludedFile(MacroFile(c)) THEN 0
     ELSE Cardinality({j \in 1..Len(template) : Copies(template[j])})

AttrDown == q.op = "map_token_down" /\ LookupInternMacro(q.call).kind.tag = "Attr" /\ IsSome(q.item)
InAttrInput ==
  /\ IsSome(Unwrap(q.item).attr_tt)
  /\ q.token.idx \in Unwrap(Unwrap(q.item).attr_tt).first..Unwrap(Unwrap(q.item).attr_tt).last
AttrId ==
  TokenByRange(LookupInternMacro(q.call).kind.attr_args.map,
               Unwrap(CheckedSub(TokRange(TokOf(q.token)),
                                 FileToks(q.token.file)[Unwrap(Unwrap(q.item).attr_tt).first].s)))
ItemId ==
  TokenByRange(InfoOf(q.call).macro_arg.map,
               Unwrap(CheckedSub(TokRange(TokOf(q.token)), NodeStart(InfoOf(q.call).arg))))
MapIds(map) == {map[i].id : i \in 1..Len(map)}

\* C7 as claimed: in the id space of an attribute macro's input the ids of the
\* attribute argument are kept and do not un-shift, the ids of the item are
\* the shifted ones.
C7_ItemIdsShifted ==
  AttrDown =>
    LET info == InfoOf(q.call)
        id == DownTokenId(info, q.item, q.token)
    IN IF InAttrInput
       THEN IsSome(AttrId) =>
              /\ id = RSome(Unwrap(AttrId))
              /\ Unshift(info.macro_arg_shift, id.v) = None
       ELSE IsSome(ItemId) =>
              /\ id = RSome(ShiftId(info.macro_arg_shift, Unwrap(ItemId)))
              /\ Unshift(info.macro_arg_shift, id.v) = Some(Unwrap(ItemId))

\* C7 amended: the ids of the item are kept and do not un-shift, the ids of the
\* attribute argument are the shifted ones and un-shift to themselves; the two
\* sets of ids are disjoint.
C7_AttrIdSpace ==
  AttrDown =>
    LET info == InfoOf(q.call)
        id == DownTokenId(info, q.item, q.token)
    IN /\ IF InAttrInput
          THEN IsSome(AttrId) =>
                 /\ id = RSome(ShiftId(info.macro_arg_shift, Unwrap(AttrId)))
                 /\ Unshift(info.macro_arg_shift, id.v) = Some(Unwrap(AttrId))
          ELSE IsSome(ItemId) =>
                 /\ id = RSome(Unwrap(ItemId))
                 /\ Unshift(info.macro_arg_shift, id.v) = None
       /\ \A a \in MapIds(LookupInternMacro(q.call).kind.attr_args.map) :
            ShiftId(info.macro_arg_shift, a) \notin MapIds(info.macro_arg.map)

C7_Witness ==
  /\ AttrDown
  /\ InAttrInput
  /\ IsSome(AttrId)
  /\ r.tag = "Some"
  /\ Len(r.v) = 1

\* the number of times the expander of call c copies the element that carries
\* the id of token t of the macro argument, whatever its text
OccurrencesOfId(c, t) ==
  LET info == InfoOf(c)
      template == defs[LookupInternMacro(c).def].template
      rel == CheckedSub(TokRange(TokOf(t)), NodeStart(info.arg))
      id == IF IsSome(rel) THEN TokenByRange(info.macro_arg.map, Unwrap(rel)) ELSE None
  IN IF ~IsSome(id) THEN 0
     ELSE Cardinality({j \in 1..Len(template) :
            /\ template[j].t = "Arg"
            /\ info.macro_arg.tt[template[j].i].id = Unwrap(id)
            /\ info.macro_arg.tt[template[j].i].t = "Leaf"})

C8_AttrMapUp ==
  (q.op = "map_token_up" /\ LookupInternMacro(q.call).kind.tag = "Attr" /\ r.tag = "Some") =>
    LET info == InfoOf(q.call)
        kind == LookupInternMacro(q.call).kind
        site == CallSite(FileToks(kind.file_id), kind.ast_id)
        id == Unwrap(TokenByRange(info.exp_map, TokRange(TokOf(q.token))))
        u == r.v.tok
    IN IF IsSome(Unshift(info.macro_arg_shift, id))
       THEN /\ IsSome(site.attr_tt)
            /\ u.file = kind.file_id
            /\ u.idx \in Unwrap(site.attr_tt).first..Unwrap(site.attr_tt).last
       ELSE /\ u.file = kind.file_id
            /\ u.idx \in (site.arg.first..site.arg.last) \ (site.attr.first..site.attr.last)

\* the first and the last token of node n that are not trivia
FirstToken(n) == InTok(n.file, Unwrap(SkipTrivia(FileToks(n.file), n.first, 1)))
LastToken(n) == InTok(n.file, Unwrap(SkipTrivia(FileToks(n.file), n.last, -1)))
DescendantsOf(n) ==
  {InFile(n.file, m) : m \in {x \in Nodes(FileToks(n.file)) :
                                 n.first <= x.first /\ x.last <= n.last}}
Ascend(t) == AscendCallToken(Unwrap(ExpansionInfo(t.file)), t)

\* the first and last tokens of node n and of each of its descendants ascend
\* to one and the same token
Collapses(n) ==
  \E it \in DescendantsOf(n) :
    /\ Ascend(FirstToken(it)).tag = "Some"
    /\ \A d \in DescendantsOf(n) :
         /\ Ascend(FirstToken(d)) = Ascend(FirstToken(it))
         /\ Ascend(LastToken(d)) = Ascend(FirstToken(it))

\* C9: original_file_range_opt gives no range for a node of an expansion that
\* spans more than one token when the first and last tokens of the node and of
\* each descendant ascend to one and the same call-site token.
C9_NoCollapsedRange ==
  (q.op = "original_file_range_opt" /\ IsMacro(q.node.file)
     /\ FirstToken(q.node) # LastToken(q.node) /\ Collapses(q.node)) =>
    r = RNone

C9_Witness ==
  /\ q.op = "original_file_range_opt"
  /\ IsMacro(q.node.file)
  /\ FirstToken(q.node) # LastToken(q.node)
  /\ Collapses(q.node)
  /\ r = RNone

RECURSIVE ClimbHitsDef(_, _)
\* some level of the climb from token reports Origin::Def
ClimbHitsDef(expansion, token) ==
  LET up == MapTokenUp(expansion, token)
  IN IF up.tag # "Some" THEN FALSE
     ELSE IF up.v.origin = "Def" THEN TRUE
     ELSE IF IsSome(ExpansionInfo(up.v.tok.file))
     THEN ClimbHitsDef(Unwrap(ExpansionInfo(up.v.tok.file)), up.v.tok)
     ELSE FALSE

RECURSIVE ClimbAllCall(_, _)
\* every level of the climb from token, up to a real file, reports Origin::Call
ClimbAllCall(expansion, token) ==
  LET up == MapTokenUp(expansion, token)
  IN IF up.tag # "Some" THEN FALSE
     ELSE IF up.v.origin # "Call" THEN FALSE
     ELSE IF IsSome(ExpansionInfo(up.v.tok.file))
     THEN ClimbAllCall(Unwrap(ExpansionInfo(up.v.tok.file)), up.v.tok)
     ELSE TRUE

\* C10: ascend_call_token gives nothing when a level of the climb reports
\* Origin::Def, and a range that original_file_range_opt gives for a node of an
\* expansion covers two tokens whose climbs report Origin::Call at every level.
C10_StopsAtDef ==
  /\ (q.op = "ascend_call_token" /\ ClimbHitsDef(InfoOf(q.call), q.token)) => r = RNone
  /\ (q.op = "original_file_range_opt" /\ IsMacro(q.node.file) /\ r.tag = "Some") =>
       \E it \in DescendantsOf(q.node) :
         /\ ClimbAllCall(Unwrap(ExpansionInfo(it.file)), FirstToken(it))
         /\ ClimbAllCall(Unwrap(ExpansionInfo(it.file)), LastToken(it))
         /\ r.v.range = Cover(TokRange(TokOf(Ascend(FirstToken(it)).v)),
                              TokRange(TokOf(Ascend(LastToken(it)).v)))

C10_Witness ==
  /\ q.op = "ascend_call_token"
  /\ IsMacro(ParentFile(MacroFile(q.call)))
  /\ MapTokenUp(InfoOf(q.call), q.token).tag = "Some"
  /\ MapTokenUp(InfoOf(q.call), q.token).v.origin = "Call"
  /\ ClimbHitsDef(InfoOf(q.call), q.token)
  /\ r = RNone

\* C11: original_file_range always returns a range and never panics: for a node
\* of a real file, that file and the node's own range; for a node of an
\* expansion, what original_file_range_opt gives when it gives a range, and
\* otherwise the range of the call node reached by following call_node up to a
\* real file, in that file.
C11_OriginalFileRangeTotal ==
  (q.op = "original_file_range") =>
    /\ r.tag = "Some"
    /\ IF ~IsMacro(q.node.file)
       THEN r.v = FileRange(q.node.file.id, NodeRange(FileToks(q.node.file), NodeOf(q.node)))
       ELSE IF OriginalFileRangeOpt(q.node).tag = "Some"
       THEN r = OriginalFileRangeOpt(q.node)
       ELSE /\ ~IsMacro(WholeMacroCall(q.node).file)
            /\ r.v = FileRange(WholeMacroCall(q.node).file.id,
                               NodeRange(FileToks(WholeMacroCall(q.node).file),
                                         NodeOf(WholeMacroCall(q.node))))

\* C12: map_token_up panics for no token of an expansion: the assertion on
\* Origin::Def is out of reach, since only a declarative expander reports
\* Origin::Def and its ids are then looked up in its def-site token map.
C12_MapTokenUpNeverPanics ==
  (q.op = "map_token_up") => r.tag # "Panic"

RECURSIVE Above(_)
\* the files above h on its parent chain
Above(h) == IF IsMacro(h) THEN {ParentFile(h)} \cup Above(ParentFile(h)) ELSE {}
\* how deep h lies below a real file
Depth(h) == Cardinality(Above(h))

\* one step of ancestors_with_macros: to an enclosing node of the same file, or
\* from the root of an expansion to the call node in a strictly shallower file
AncestorStep(a, b) ==
  \/ /\ a.file = b.file
     /\ b.first <= a.first /\ a.last <= b.last /\ NodeOf(a) # NodeOf(b)
  \/ /\ IsMacro(a.file)
     /\ NodeOf(a) = Node(1, Len(FileToks(a.file)))
     /\ b.file = ParentFile(a.file)
     /\ b.file # a.file
     /\ Depth(b.file) < Depth(a.file)

\* C13: every climb ends, and each of its steps goes to a distinct, strictly
\* shallower file: expansion_level makes as many steps as the file is deep,
\* original_file ends in a real file, a step of map_token_up lands in a
\* shallower file, ascend_call_token and original_file_range end in a real
\* file, and ancestors_with_macros climbs by enclosing nodes and call nodes up
\* to the root of a real file.
C13_ClimbsTerminate ==
  /\ \A c \in CallIds :
       /\ ParentFile(MacroFile(c)) # MacroFile(c)
       /\ Depth(ParentFile(MacroFile(c))) < Depth(MacroFile(c))
  /\ (q.op = "expansion_level") => r = Depth(q.file)
  /\ (q.op = "original_file") => r \in RealFileIds
  /\ (q.op = "map_token_up" /\ r.tag = "Some") =>
       Depth(r.v.tok.file) < Depth(q.token.file)
  /\ (q.op = "ascend_call_token" /\ r.tag = "Some") => ~IsMacro(r.v.file)
  /\ (q.op = "original_file_range" /\ r.tag = "Some") => r.v.file_id \in RealFileIds
  /\ (q.op = "ancestors_with_macros") =>
       /\ r[1] = q.node
       /\ \A i \in 1..(Len(r) - 1) : AncestorStep(r[i], r[i + 1])
       /\ ~IsMacro(r[Len(r)].file)
       /\ NodeOf(r[Len(r)]) = Node(1, Len(FileToks(r[Len(r)].file)))

C13_Witness ==
  /\ q.op = "ancestors_with_macros"
  /\ Depth(q.node.file) = 2
  /\ Cardinality({r[i].file : i \in 1..Len(r)}) = 3

\* C14: expansion_info and call_node report the failure of a collaborator (an
\* unresolved definition, an expansion without a value, a call whose file has
\* no parse) as an absent value and never panic.
C14_FailuresAreAbsent ==
  (q.op \in {"expansion_info", "call_node"}) => r.tag # "Panic"

\* no id is recorded for two leaf ranges, and no leaf id is a delimiter id
UniqueIds(map) ==
  \A i, j \in 1..Len(map) :
    (i # j /\ ~map[i].delim) => map[i].id # map[j].id

\* the maps the database holds that syntax_node_to_token_tree built
BridgeMaps ==
  {Unwrap(db[c].arg).map : c \in CallIds}
  \cup {LookupInternMacro(c).kind.attr_args.map : c \in CallIds}
  \cup {defs[d].conv.map : d \in DOMAIN defs}

\* the maps the tree sink built
SinkMaps == {Unwrap(db[c].exp).map : c \in {x \in CallIds : IsSome(db[x].exp)}}

\* how many leaves of the token tree, or leaf entries of the map, carry id
LeavesWithId(tt, id) == Cardinality({i \in 1..Len(tt) : tt[i].t = "Leaf" /\ tt[i].id = id})
LeafEntriesWithId(map, id) == Cardinality({i \in 1..Len(map) : ~map[i].delim /\ map[i].id = id})

\* C15: in the map built by syntax_node_to_token_tree and in the map built by
\* the tree sink no id is recorded for more than one leaf range, and a leaf id
\* is never also a delimiter id.
C15_IdsUnique ==
  \A map \in BridgeMaps \cup SinkMaps : UniqueIds(map)

\* C15 amended: the ids of a map built by syntax_node_to_token_tree are unique;
\* the map built by the tree sink records one leaf range for every leaf of the
\* expansion's token tree, so an id the tree holds k times has k leaf ranges.
C15_BridgeIdsUnique ==
  /\ \A map \in BridgeMaps : UniqueIds(map)
  /\ \A c \in CallIds :
       IsSome(db[c].exp) =>
         \A id \in {Unwrap(db[c].exp).map[i].id : i \in 1..Len(Unwrap(db[c].exp).map)} :
           LeafEntriesWithId(Unwrap(db[c].exp).map, id)
             = LeavesWithId(Expand(LookupInternMacro(c), Unwrap(db[c].arg)), id)

C15_Witness ==
  \E c \in CallIds :
    /\ IsSome(db[c].exp)
    /\ \E i \in 1..Len(Unwrap(db[c].arg).map) : Unwrap(db[c].arg).map[i].delim
    /\ \E i \in 1..Len(Unwrap(db[c].arg).map) : ~Unwrap(db[c].arg).map[i].delim
    /\ \E id \in TtIds(Expand(LookupInternMacro(c), Unwrap(db[c].arg))) :
         LeafEntriesWithId(Unwrap(db[c].exp).map, id) = 2

\* token i of the node [first, last] becomes a leaf of the token tree: it is
\* not trivia (a doc comment aside), not a delimiter and not censored
EmittedAsLeaf(toks, i, censor) ==
  /\ toks[i].kind \notin OpenKinds \cup CloseKinds
  /\ IF toks[i].kind = "COMMENT" THEN CommentDoc(toks[i].text) # "none"
     ELSE ~IsTrivia(toks[i].kind)
  /\ \A c \in censor : ~(c.first <= i /\ i <= c.last)

\* every emitted leaf token of the node has a leaf in conv.tt whose id is
\* recorded in conv.map for the token's range, taken from offset base
RangesSurvive(toks, first, last, censor, conv, base) ==
  \A i \in first..last :
    EmittedAsLeaf(toks, i, censor) =>
      \E k \in 1..Len(conv.map) :
        /\ ~conv.map[k].delim
        /\ Range(conv.map[k].s, conv.map[k].e) = Range(toks[i].s - base, toks[i].e - base)
        /\ FirstRangeByToken(conv.map, conv.map[k].id, toks[i].kind)
             = Some(Range(toks[i].s - base, toks[i].e - base))
        /\ \E e \in 1..Len(conv.tt) :
             /\ conv.tt[e].t = "Leaf" /\ conv.tt[e].id = conv.map[k].id
             /\ (toks[i].kind # "COMMENT" => conv.tt[e].text = toks[i].text)

\* the node, the censored nodes and the tokens of the file of the argument of call c
ArgSite(c) ==
  CallSite(FileToks(KindFileId(LookupInternMacro(c).kind)), LookupInternMacro(c).kind.ast_id)
ArgCensor(c) == IF LookupInternMacro(c).kind.tag = "FnLike" THEN {} ELSE {ArgSite(c).attr}

SourceOf(toks, map, id) ==
  CHOOSE i \in 1..Len(toks) :
    \E k \in 1..Len(map) :
      /\ ~map[k].delim /\ map[k].id = id
      /\ ContainsRange(TokRange(toks[i]), Range(map[k].s, map[k].e))

\* the punct leaves of the result of parse_to_token_tree
PunctLeaves == {e \in 1..Len(r.tt) : r.tt[e].t = "Leaf" /\ r.tt[e].leaf = "Punct"}

SubtreesClosed ==
  \A i \in 1..Len(files[MainFileId]) :
    MatchingCloser(files[MainFileId], i) =>
      \E k \in 1..Len(r.map) :
        /\ r.map[k] = DelimEntry(r.map[k].id,
                                 TokRange(files[MainFileId][OpenerOf(files[MainFileId], i)]),
                                 TokRange(files[MainFileId][i]))
        /\ \E e1, e2 \in 1..Len(r.tt) :
             /\ e1 < e2
             /\ r.tt[e1] = TtOpen(files[MainFileId][OpenerOf(files[MainFileId], i)].kind,
                                  r.map[k].id)
             /\ r.tt[e2] = TtClose(files[MainFileId][OpenerOf(files[MainFileId], i)].kind,
                                   r.map[k].id)

\* an unmatched closer leaves no trace: no entry of the map has its range
UnmatchedIgnored ==
  \A i \in UnmatchedClosers(files[MainFileId]) :
    \A k \in 1..Len(r.map) :
      r.map[k].delim \/ Range(r.map[k].s, r.map[k].e) # TokRange(files[MainFileId][i])

\* C18: an opening delimiter opens a subtree, the matching closing delimiter
\* closes it, and a closing delimiter that does not match is ignored: nothing
\* is added to the token tree and no token id is allocated.
C18_UnmatchedCloserIgnored ==
  q.op = "parse_to_token_tree" => SubtreesClosed /\ UnmatchedIgnored

\* the opening delimiters of a text that are never closed
Unclosed(toks) ==
  {OpenBefore(toks, Len(toks))[j] : j \in 1..Len(OpenBefore(toks, Len(toks)))}

\* how many subtrees of the tree enclose its element e
TtDepth(tt, e) ==
  Cardinality({x \in 1..(e - 1) : tt[x].t = "Open"})
    - Cardinality({x \in 1..(e - 1) : tt[x].t = "Close"})

\* how many closed delimiter pairs of the text enclose its token i
ClosedAround(toks, i) ==
  Cardinality({j \in 1..Len(OpenBefore(toks, i - 1)) :
                 OpenBefore(toks, i - 1)[j] \notin Unclosed(toks)})

\* the leaves of the result of parse_to_token_tree
Leaves == {e \in 1..Len(r.tt) : r.tt[e].t = "Leaf"}

\* C19: for a text that ends with unclosed delimiters convert_tokens flattens
\* every unclosed subtree into its parent: the opener becomes a punct leaf
\* with spacing Alone, the contents follow in their original order at the
\* level of the parent, and no subtree is left without its closing delimiter;
\* `( a, b` gives the leaves `(`, `a`, `,`, `b` in the root.
C19_UnclosedFlattened ==
  q.op = "parse_to_token_tree" =>
    /\ \A i \in Unclosed(files[MainFileId]) :
         \E e \in Leaves :
           /\ r.tt[e] = PunctLeaf(files[MainFileId][i].text, "Alone", r.tt[e].id,
                                  files[MainFileId][i].kind)
           /\ SourceOf(files[MainFileId], r.map, r.tt[e].id) = i
    /\ \A e \in Leaves :
         TtDepth(r.tt, e)
           = ClosedAround(files[MainFileId], SourceOf(files[MainFileId], r.map, r.tt[e].id))
    /\ \A e1, e2 \in Leaves :
         e1 < e2 => Unwrap(FirstRangeByToken(r.map, r.tt[e1].id, r.tt[e1].kind)).s
                      < Unwrap(FirstRangeByToken(r.map, r.tt[e2].id, r.tt[e2].kind)).s
    /\ \A e1 \in 1..Len(r.tt) :
         r.tt[e1].t = "Open" =>
           \E e2 \in (e1 + 1)..Len(r.tt) : r.tt[e2] = TtClose(r.tt[e1].kind, r.tt[e1].id)
    /\ [i \in 1..Len(files[MainFileId]) |-> files[MainFileId][i].text]
         = <<"(", " ", "a", ",", " ", "b">>
       => [e \in 1..Len(r.tt) |-> <<r.tt[e].t, r.tt[e].text>>]
            = <<<<"Leaf", "(">>, <<"Leaf", "a">>, <<"Leaf", ",">>, <<"Leaf", "b">>>>

\* the text `( a, b` converted
C19_Witness ==
  /\ q.op = "parse_to_token_tree"
  /\ [i \in 1..Len(files[MainFileId]) |-> files[MainFileId][i].text]
       = <<"(", " ", "a", ",", " ", "b">>
  /\ Unclosed(files[MainFileId]) = {1}
  /\ Len(r.tt) = 4

\* the nodes of a run of the parser that are started while no node is open
TopLevelRoots(events) ==
  Cardinality({i \in 1..Len(events) :
                 /\ events[i] = "start"
                 /\ Cardinality({j \in 1..(i - 1) : events[j] = "start"})
                      = Cardinality({j \in 1..(i - 1) : events[j] = "finish"})})

\* C20: token_tree_to_syntax_node returns Err(ConversionError) if and only if
\* the events of the parser made a number of top-level roots other than one;
\* with one root it returns the parse and the token map of the expansion.
C20_ErrIffNotOneRoot ==
  q.op = "token_tree_to_syntax_node" =>
    /\ (r = [tag |-> "Err", error |-> "ConversionError"])
         <=> (TopLevelRoots(q.events) # 1)
    /\ TopLevelRoots(q.events) = 1 =>
         /\ r.tag = "Ok"
         /\ \A e \in 1..Len(ParseToTokenTree(files[MainFileId]).tt) :
              ParseToTokenTree(files[MainFileId]).tt[e].t = "Leaf" =>
                \E k \in 1..Len(r.value.map) :
                  /\ r.value.map[k].id = ParseToTokenTree(files[MainFileId]).tt[e].id
                  /\ \E t \in 1..Len(r.value.toks) :
                       /\ ContainsRange(TokRange(r.value.toks[t]),
                                        Range(r.value.map[k].s, r.value.map[k].e))
                       /\ TokRange(r.value.toks[t])
                            = Range(r.value.map[k].s, r.value.map[k].e)
                          => r.value.toks[t].text
                               = ParseToTokenTree(files[MainFileId]).tt[e].text

\* a token tree for which the parser made two roots, and the error returned
C20_Witness ==
  /\ q.op = "token_tree_to_syntax_node"
  /\ TopLevelRoots(q.events) = 2
  /\ Len(ParseToTokenTree(files[MainFileId]).tt) > 1
  /\ r.tag = "Err"

InternMacro(loc) == CHOOSE c \in CallIds : interner[c] = loc

AlonePunctBeforePunct(tt, j) ==
  /\ tt[j].t = "Leaf" /\ tt[j].leaf = "Punct"
  /\ tt[j].spacing = "Alone" /\ tt[j].text # ";"
  /\ j < Len(tt)
  /\ tt[j + 1].t = "Leaf" /\ tt[j + 1].leaf = "Punct"

NotWhitespace(t) == t.kind # "WHITESPACE"

\* the tokens the sink wrote, and the ones among them that it wrote for an
\* element of the token tree
SinkOutput == r.value.toks
SinkWritten == SelectSeq(r.value.toks, NotWhitespace)

\* C23: the tree sink writes one whitespace token of length 1, and moves
\* text_pos by 1, after a token whose last leaf is a punct with spacing Alone
\* other than `;` when the next element is a punct leaf too; in every other
\* case it writes no whitespace.
C23_WhitespaceAfterAlone ==
  (/\ q.op = "token_tree_to_syntax_node" /\ r.tag = "Ok"
   /\ \A i \in 1..Len(files[MainFileId]) : files[MainFileId][i].kind # "LIFETIME_IDENT") =>
    LET tt == ParseToTokenTree(files[MainFileId]).tt IN
    /\ Len(SinkWritten) = Len(tt)
    /\ \A j \in 1..Len(tt) :
         /\ SinkWritten[j].text = tt[j].text
         /\ (IF j < Len(tt) THEN SinkWritten[j + 1].s ELSE SinkOutput[Len(SinkOutput)].e)
              - SinkWritten[j].e
              = IF AlonePunctBeforePunct(tt, j) THEN 1 ELSE 0
    /\ \A i \in 1..Len(SinkOutput) :
         /\ SinkOutput[i].s = IF i = 1 THEN 0 ELSE SinkOutput[i - 1].e
         /\ SinkOutput[i].kind = "WHITESPACE" =>
              /\ SinkOutput[i].text = " "
              /\ SinkOutput[i].e = SinkOutput[i].s + 1
    /\ Len(SinkOutput) - Len(SinkWritten)
         = Cardinality({j \in 1..Len(tt) : AlonePunctBeforePunct(tt, j)})

\* the leaves `;` `,` `,` with the first comma Alone: whitespace after that
\* comma and none after `;`
C23_Witness ==
  /\ q.op = "token_tree_to_syntax_node" /\ r.tag = "Ok"
  /\ [e \in 1..Len(ParseToTokenTree(files[MainFileId]).tt) |->
        ParseToTokenTree(files[MainFileId]).tt[e].text] = <<";", ",", ",">>
  /\ [i \in 1..Len(SinkOutput) |-> SinkOutput[i].text] = <<";", ",", " ", ",">>

\* the lifetime token i of the converted node became two consecutive leaves
\* with consecutive ids, the apostrophe recorded for the first character and
\* the name for the rest of the token, ranges taken from offset base
LifetimeSplit(toks, i, conv, base) ==
  /\ \E e \in 1..(Len(conv.tt) - 1) :
       /\ conv.tt[e] = PunctLeaf("'", "Joint", conv.tt[e].id, "QUOTE")
       /\ conv.tt[e + 1].t = "Leaf" /\ conv.tt[e + 1].leaf = "Ident"
       /\ LifetimeText(conv.tt[e + 1].text) = toks[i].text
       /\ conv.tt[e + 1].id = conv.tt[e].id + 1
       /\ RangesByToken(conv.map, conv.tt[e].id, "IDENT")
            = <<Range(toks[i].s - base, toks[i].s - base + 1)>>
       /\ RangesByToken(conv.map, conv.tt[e + 1].id, "IDENT")
            = <<Range(toks[i].s - base + 1, toks[i].e - base)>>
  /\ Cardinality({k \in 1..Len(conv.map) :
                    /\ ~conv.map[k].delim
                    /\ ContainsRange(Range(toks[i].s - base, toks[i].e - base),
                                     Range(conv.map[k].s, conv.map[k].e))}) = 2

\* the lifetime tokens of the node a conversion was asked for
LifetimesConverted ==
  {i \in q.node.first..q.node.last : files[MainFileId][i].kind = "LIFETIME_IDENT"}

\* C24: a lifetime token with range [s, e) becomes two consecutive leaves with
\* consecutive ids: a punct `'` with spacing Joint recorded at [s, s+1) and an
\* identifier with the text after the apostrophe recorded at [s+1, e).
C24_LifetimeSplitAbsolute ==
  q.op \in {"parse_to_token_tree", "syntax_node_to_token_tree"} =>
    \A i \in LifetimesConverted : LifetimeSplit(files[MainFileId], i, r, 0)

\* C24 amended: the two ranges are recorded relative to the start of the
\* converted node, [s - o, s - o + 1) and [s - o + 1, e - o).
C24_LifetimeSplitRelative ==
  q.op \in {"parse_to_token_tree", "syntax_node_to_token_tree"} =>
    \A i \in LifetimesConverted :
      LifetimeSplit(files[MainFileId], i, r, files[MainFileId][q.node.first].s)

\* a node that starts after the start of the file and holds a lifetime
C24_Witness ==
  /\ q.op = "syntax_node_to_token_tree"
  /\ files[MainFileId][q.node.first].s > 0
  /\ LifetimesConverted # {}
  /\ \E e \in 1..Len(r.tt) : r.tt[e].text = "'"

\* the elements of a token tree, each with the range the map records for it
Elements(conv) ==
  [e \in 1..Len(conv.tt) |->
     [el |-> conv.tt[e],
      range |-> Unwrap(FirstRangeByToken(conv.map, conv.tt[e].id, conv.tt[e].kind))]]

\* the censored node and the range of its text
Censored == CHOOSE c \in q.censor : TRUE
CensoredRange ==
  Range(files[MainFileId][Censored.first].s, files[MainFileId][Censored.last].e)

OutsideCensored(x) == ~ContainsRange(CensoredRange, x.range)
WithoutId(x) == [x EXCEPT !.el.id = 0]
WithoutIdAndSpacing(x) == [x EXCEPT !.el.id = 0, !.el.spacing = "-"]

\* the conversion of the same node with nothing censored
Uncensored == SyntaxNodeToTokenTree(files[MainFileId], q.node.first, q.node.last)

\* no token inside the censored node is in the tree or in the map
NothingFromCensored ==
  /\ \A k \in 1..Len(r.map) : ~ContainsRange(CensoredRange, Range(r.map[k].s, r.map[k].e))
  /\ Len(r.tt) = Len(SelectSeq(Elements(Uncensored), OutsideCensored))

\* C25: the censored conversion skips every censored node wholesale: no token
\* inside a censored node is in the token tree or has an id in the map, and
\* every token outside gets the same leaf, in the same order, as in the
\* uncensored conversion.
C25_CensoredSameLeaves ==
  q.op = "syntax_node_to_token_tree_censored" =>
    /\ NothingFromCensored
    /\ Elements(r) = SelectSeq(Elements(Uncensored), OutsideCensored)

\* C25 amended: every token outside gets the same leaf apart from its id, in
\* the same order, and with the same spacing unless it is a punct that the
\* censored node follows at once: its spacing comes from the token after the
\* censored node.
C25_CensoredSameLeavesButId ==
  q.op = "syntax_node_to_token_tree_censored" =>
    /\ NothingFromCensored
    /\ \A e \in 1..Len(r.tt) :
         LET u == SelectSeq(Elements(Uncensored), OutsideCensored)[e]
             x == Elements(r)[e]
         IN /\ WithoutIdAndSpacing(x) = WithoutIdAndSpacing(u)
            /\ x.el.id <= u.el.id
            /\ IF /\ x.el.leaf = "Punct" /\ x.el.kind \notin OpenKinds
                  /\ x.range.e = CensoredRange.s
               THEN (x.el.spacing = "Joint")
                      <=> /\ Censored.last < Len(files[MainFileId])
                          /\ files[MainFileId][Censored.last + 1].kind
                               \in PunctKinds \ (OpenKinds \cup {"UNDERSCORE"})
               ELSE x.el.spacing = u.el.spacing

\* `-` before the censored `-a`, and a token after it
C25_Witness ==
  /\ q.op = "syntax_node_to_token_tree_censored"
  /\ [i \in 1..Len(files[MainFileId]) |-> files[MainFileId][i].text] = <<"-", "-", "a", ";">>
  /\ Censored = Node(2, 3)
  /\ [e \in 1..Len(r.tt) |-> r.tt[e].text] = <<"-", ";">>
  /\ r.tt[1].spacing = "Joint"

\* the flag of the configuration for a kind of highlight
FlagOf(config, kind) ==
  CASE kind = "exit_points" -> config.exit_points
    [] kind = "yield_points" -> config.yield_points
    [] kind = "break_points" -> config.break_points
    [] OTHER -> config.references

AllEnabled ==
  [references |-> TRUE, exit_points |-> TRUE, break_points |-> TRUE, yield_points |-> TRUE]

Bumped ==
  LET toks == files[MainFileId]
      Kept(t) == \A c \in q.censor :
                   ~ContainsRange(Range(toks[c.first].s, toks[c.last].e), TokRange(t))
  IN IF q.op = "syntax_node_to_token_tree_censored"
     THEN SelectSeq(SubSeq(toks, q.node.first, q.node.last), Kept)
     ELSE SubSeq(toks, q.node.first, q.node.last)

\* convert_tokens after n turns of its loop
StackAfter(n) == ConvLoop(SubSeq(Bumped, 1, n), 1, ConvInit, 0)

\* no unwrap has failed, the bottom entry is the root and it alone has no
\* delimiter
RootAtBottom(st) ==
  /\ ~st.panic
  /\ Len(st.stack) >= 1
  /\ st.stack[1] = RootEntry
  /\ \A i \in 2..Len(st.stack) : IsSome(st.stack[i].delimiter)

\* C27: in convert_tokens, for every sequence of input tokens, balanced or not,
\* the delimiter stack is never empty after any turn of the loop: its bottom
\* entry is the root with delimiter None, every entry above it has a
\* delimiter, after the end-of-input merge exactly one entry remains, and no
\* unwrap of pop or last fails up to and including the final pop.
C27_StackNeverEmpty ==
  q.op \in {"parse_to_token_tree", "syntax_node_to_token_tree",
            "syntax_node_to_token_tree_censored"} =>
    /\ \A n \in 0..Len(Bumped) : RootAtBottom(StackAfter(n))
    /\ RootAtBottom(ConvMerge(StackAfter(Len(Bumped)), 0))
    /\ Len(ConvMerge(StackAfter(Len(Bumped)), 0).stack) = 1
    /\ ~ConvFinish(ConvMerge(StackAfter(Len(Bumped)), 0)).panic

\* a closing delimiter met with only the root on the stack, and a delimiter
\* still open at the end of the input
C27_Witness ==
  /\ q.op = "parse_to_token_tree"
  /\ \E n \in 1..Len(Bumped) :
       /\ Bumped[n].kind \in CloseKinds
       /\ Len(StackAfter(n - 1).stack) = 1
  /\ Len(StackAfter(Len(Bumped)).stack) > 1


\* what bump has returned so far: a punctuation token comes as Punch and any
\* other token as Ordinary; the characters of a punctuation token come one
\* after the other from offset 0 on, each with the range of length 1 at its
\* offset
PunctDelivered(toks, log) ==
  \A j \in 1..Len(log) :
    /\ IsPunct(toks[log[j].token.token].kind) <=> log[j].token.t = "Punch"
    /\ log[j].token.t = "Ordinary" => log[j].range = TokRange(toks[log[j].token.token])
    /\ log[j].token.t = "Punch" =>
         /\ log[j].token.offset < toks[log[j].token.token].e - toks[log[j].token.token].s
         /\ log[j].range = Range(toks[log[j].token.token].s + log[j].token.offset,
                                 toks[log[j].token.token].s + log[j].token.offset + 1)
         /\ log[j].token.offset > 0 =>
              /\ j > 1
              /\ log[j - 1].token = Punch(log[j].token.token, log[j].token.offset - 1)
         /\ log[j].token.offset = 0 =>
              \/ j = 1
              \/ log[j - 1].token.token < log[j].token.token
         /\ (/\ j < Len(log)
             /\ log[j].token.offset + 1
                  < toks[log[j].token.token].e - toks[log[j].token.token].s) =>
              log[j + 1].token = Punch(log[j].token.token, log[j].token.offset + 1)

\* the last character that bump returned is the last one of its token
LastPunctComplete(toks, log) ==
  (Len(log) > 0 /\ log[Len(log)].token.t = "Punch") =>
    log[Len(log)].token.offset + 1
      = toks[log[Len(log)].token.token].e - toks[log[Len(log)].token.token].s

\* C28: in every reachable state of a Convertor peek() announces what the
\* next bump() returns: peek() is None exactly when bump() returns None, and
\* otherwise both give the same token and the same character offset into it;
\* a punctuation token of n characters is delivered by n successive bumps
\* with adjacent ranges of length 1 that cover the token, which is what the
\* assertion in convert_tokens asks of each of them.
C28_PeekAnnouncesBump ==
  [][q'.op = "bump" =>
       /\ ConvertorPeek(files[MainFileId], db) = None <=> r' = None
       /\ r' # None => Unwrap(r').token = Unwrap(ConvertorPeek(files[MainFileId], db))
       /\ PunctDelivered(files[MainFileId], interner')
       /\ r' = None => LastPunctComplete(files[MainFileId], interner')]_vars

\* the three characters of `..=` delivered and a token after them
C28_Witness ==
  /\ q.op = "bump"
  /\ \E j \in 1..(Len(interner) - 1) :
       /\ files[MainFileId][interner[j].token.token].kind = "DOTDOTEQ"
       /\ interner[j].token = Punch(interner[j].token.token, 2)
       /\ interner[j].range = Range(files[MainFileId][interner[j].token.token].e - 1,
                                    files[MainFileId][interner[j].token.token].e)
  /\ db.censor # {}


\* C29: whenever ascend_call_token returns Some(token) the token lies in a
\* real file, so the range that original_file_range_opt reports together
\* with original_file is a range of that real file and never one of an
\* intermediate macro expansion file.
C29_AscendEndsInRealFile ==
  /\ (q.op = "ascend_call_token" /\ r.tag = "Some") => ~IsMacro(r.v.file)
  /\ (/\ q.op = "original_file_range_opt"
      /\ r.tag = "Some"
      /\ OriginalRangeOpt(q.node).tag = "Some")
       => /\ OriginalRangeOpt(q.node).v.file = RealFile(r.v.file_id)
          /\ r.v.range = OriginalRangeOpt(q.node).v.range


\* a token of the expansion of a call that itself lies in an expansion,
\* ascended through both calls
C29_Witness ==
  /\ q.op = "ascend_call_token"
  /\ IsMacro(KindFileId(LookupInternMacro(q.call).kind))
  /\ r.tag = "Some"
  /\ ~IsMacro(r.v.file)


\* the token tree handed to the tree sink
SinkInput ==
  IF q.op = "token_tree_to_syntax_node_fabricated"
  THEN Fabricated(ParseToTokenTree(files[MainFileId]).tt)
  ELSE ParseToTokenTree(files[MainFileId]).tt

RECURSIVE SinkAfter(_, _)
\* the tree sink after the first n elements of the token tree
SinkAfter(tt, n) == IF n = 0 THEN SinkNew ELSE SinkToken(SinkAfter(tt, n - 1), tt, n)

RECURSIVE TextLen(_, _)
\* the length of the text of the first n tokens handed to the tree builder
TextLen(toks, n) == IF n = 0 THEN 0 ELSE TextLen(toks, n - 1) + Len(toks[n].text)

\* element n ends a call of token(): it is not the apostrophe of a lifetime,
\* which is taken together with the name in one call
CallEnds(tt, n) ==
  n = 0 \/ ~(tt[n].text = "'" /\ n < Len(tt) /\ tt[n + 1].leaf = "Ident")

\* text_pos is the length of everything handed to the builder, and every
\* token stands where the text before it ends
TextPosTracksText(tt) ==
  \A n \in 0..Len(tt) :
    /\ CallEnds(tt, n) =>
         SinkAfter(tt, n).pos = TextLen(SinkAfter(tt, n).toks, Len(SinkAfter(tt, n).toks))
    /\ \A i \in 1..Len(SinkAfter(tt, n).toks) :
         /\ SinkAfter(tt, n).toks[i].s = TextLen(SinkAfter(tt, n).toks, i - 1)
         /\ SinkAfter(tt, n).toks[i].e = TextLen(SinkAfter(tt, n).toks, i)

IsLeafElt(el) == el.t = "Leaf"
IsLeafEntry(en) == ~en.delim

\* the k-th leaf range of the map is where the text of the k-th leaf of the
\* tree stands in the text: it is the range of a token with that text, or
\* the apostrophe or the name inside a lifetime token
LeafRangesAreTextPositions(tt, out) ==
  /\ Len(SelectSeq(out.map, IsLeafEntry)) = Len(SelectSeq(tt, IsLeafElt))
  /\ \A k \in 1..Len(SelectSeq(tt, IsLeafElt)) :
       LET leaf == SelectSeq(tt, IsLeafElt)[k]
           en == SelectSeq(out.map, IsLeafEntry)[k]
       IN /\ en.id = leaf.id
          /\ en.e - en.s = Len(leaf.text)
          /\ \E t \in 1..Len(out.toks) :
               \/ /\ TokRange(out.toks[t]) = Range(en.s, en.e)
                  /\ out.toks[t].text = leaf.text
               \/ /\ out.toks[t].kind = "LIFETIME_IDENT"
                  /\ leaf.text = "'"
                  /\ Range(en.s, en.e) = Range(out.toks[t].s, out.toks[t].s + 1)
               \/ /\ out.toks[t].kind = "LIFETIME_IDENT"
                  /\ out.toks[t].text = LifetimeText(leaf.text)
                  /\ Range(en.s, en.e) = Range(out.toks[t].s + 1, out.toks[t].e)

\* the ranges an entry of the map records: one for a leaf, the opening and
\* the closing one for a delimiter pair
RecordedRanges(map) ==
  {<<i, "leaf", Range(map[i].s, map[i].e)>> : i \in {j \in 1..Len(map) : ~map[j].delim}}
  \cup {<<i, "open", Range(map[i].s, map[i].s + 1)>> :
          i \in {j \in 1..Len(map) : map[j].delim}}
  \cup {<<i, "close", Range(map[i].e - 1, map[i].e)>> :
          i \in {j \in 1..Len(map) : map[j].delim}}

NoOverlap(map) ==
  \A a, b \in RecordedRanges(map) :
    a # b => (a[3].e <= b[3].s \/ b[3].e <= a[3].s)

OpenBeforeClose(map) ==
  \A i \in 1..Len(map) : map[i].delim => map[i].s + 1 <= map[i].e - 1

\* C30: in the tree sink, after every call of token(), text_pos equals the
\* total length of the text handed to the syntax tree builder so far, tokens
\* and inserted whitespace; every leaf range recorded in the token map of
\* the expansion is the position of that leaf's text in the reassembled
\* text, recorded ranges never overlap, and every recorded delimiter pair
\* has its open range before its close range.
C30_TextPosTracksText ==
  (/\ q.op \in {"token_tree_to_syntax_node", "token_tree_to_syntax_node_fabricated"}
   /\ r.tag = "Ok") =>
    /\ TextPosTracksText(SinkInput)
    /\ LeafRangesAreTextPositions(SinkInput, r.value)
    /\ NoOverlap(r.value.map)
    /\ OpenBeforeClose(r.value.map)

====
